---- MODULE Spec2Model ----
(***************************************************************************)
(* A model of the language-server client of oh-my-opencode:                *)
(*   src/src/tools/lsp/client.ts   LSPClient (framing, correlation,        *)
(*                                 lifecycle)                              *)
(*   src/unnamed/part_003          withLspClient (the session orchestrator)*)
(*   src/src/tools/lsp/tools.ts    the tools' operation closures           *)
(*                                                                         *)
(* Indices of byte sequences follow the source (0-based, end exclusive);   *)
(* the operators Slice and At translate them to TLA+ sequences.            *)
(***************************************************************************)
EXTENDS Integers, Sequences, FiniteSets, TLC

(***************************************************************************)
(* Bounds of the model                                                     *)
(***************************************************************************)
\* frames the server puts on its output stream in the framing specification
MaxFrames == 2
\* request ids one client allocates (requestId never exceeds it)
MaxReq == 3
\* public-method calls made on a client that is driven directly
MaxCalls == 3
\* subprocesses spawned by start calls on a client that is driven directly
MaxProcs == 2
\* entries of the lsp object of the user's configuration file
MaxUser == 2
\* server-initiated requests the client answers in the server-request specification
MaxAnswers == 1
\* nested directories of the filesystem, and segments of a path, below the root
MaxDepth == 3
\* concurrent calls of withLspClient
MaxSessions == 2
\* frames of the server's output in the short framing specification
MaxShortFrames == 2
\* frames the client writes in the written-frames specification
MaxWritten == 2
\* reads of the configuration file in the cache specification
MaxReads == 3
\* events the session auto-export hook handles
MaxEvents == 2
\* the last tick of the clock of the session auto-export hook
MaxTime == 3
\* the last tick of the clock of the testing-agent trigger hook
MaxTriggerTime == 4
\* calls of tools the testing-agent trigger hook sees
MaxEdits == 3

(***************************************************************************)
(* Byte sequences                                                          *)
(***************************************************************************)
\* haystack[i] of the source, i 0-based
At(s, i) == s[i + 1]

\* Uint8Array.slice(start, end): the bytes at start .. end-1
Slice(s, start, end) == SubSeq(s, start + 1, end)

\* client.ts:66
CONTENT_LENGTH == <<67, 111, 110, 116, 101, 110, 116, 45, 76, 101, 110, 103, 116, 104, 58>>

\* client.ts:67
CRLF_CRLF == <<13, 10, 13, 10>>

\* client.ts:68
LF_LF == <<10, 10>>

\* does needle occur in haystack at 0-based position i (the inner loop)
MatchAt(haystack, needle, i) ==
  \A j \in 0 .. Len(needle) - 1 : At(haystack, i + j) = At(needle, j)

\* client.ts:55-60: the outer loop from position i on
RECURSIVE FindFrom(_, _, _)
FindFrom(haystack, needle, i) ==
  IF i > Len(haystack) - Len(needle) THEN -1
  ELSE IF MatchAt(haystack, needle, i) THEN i
  ELSE FindFrom(haystack, needle, i + 1)

\* client.ts:54-62: the first position of needle in haystack, or -1
findSequence(haystack, needle) == FindFrom(haystack, needle, 0)

\* the regular expression's name, compared without regard to case (client.ts:84, flag i)
HEADER_NAME_LOWER == <<99, 111, 110, 116, 101, 110, 116, 45, 108, 101, 110, 103, 116, 104, 58>>

\* case folding of the i flag on an ASCII byte
Lower(b) == IF b \in 65 .. 90 THEN b + 32 ELSE b

\* \s on an ASCII byte: tab, LF, VT, FF, CR, space
IsSpace(b) == b \in {9, 10, 11, 12, 13, 32}

\* \d
IsDigit(b) == b \in 48 .. 57

\* the first position >= j of header that holds no white space (\s* is greedy)
RECURSIVE SkipSpaces(_, _)
SkipSpaces(header, j) ==
  IF j < Len(header) /\ IsSpace(At(header, j)) THEN SkipSpaces(header, j + 1) ELSE j

\* the end (exclusive) of the run of digits that starts at j (\d+ is greedy)
RECURSIVE DigitsEnd(_, _)
DigitsEnd(header, j) ==
  IF j < Len(header) /\ IsDigit(At(header, j)) THEN DigitsEnd(header, j + 1) ELSE j

\* parseInt(digits, 10) of the digits at from .. to-1
RECURSIVE parseInt(_, _, _)
parseInt(header, from, to) ==
  IF to <= from THEN 0
  ELSE 10 * parseInt(header, from, to - 1) + (At(header, to - 1) - 48)

\* does /Content-Length:\s*(\d+)/i match header at position i
RegexMatchAt(header, i) ==
  /\ i + Len(HEADER_NAME_LOWER) <= Len(header)
  /\ \A j \in 0 .. Len(HEADER_NAME_LOWER) - 1 :
       Lower(At(header, i + j)) = At(HEADER_NAME_LOWER, j)
  /\ LET d == SkipSpaces(header, i + Len(HEADER_NAME_LOWER))
     IN  d < Len(header) /\ IsDigit(At(header, d))

\* the first position >= i where the regular expression matches header, or -1
RECURSIVE RegexSearch(_, _)
RegexSearch(header, i) ==
  IF i >= Len(header) THEN -1
  ELSE IF RegexMatchAt(header, i) THEN i
  ELSE RegexSearch(header, i + 1)

\* client.ts:84-87: header.match(...) and parseInt(match[1], 10); -1 when there is
\* no match
HeaderLength(header) ==
  LET i == RegexSearch(header, 0)
      d == SkipSpaces(header, i + Len(HEADER_NAME_LOWER))
  IN  IF i = -1 THEN -1 ELSE parseInt(header, d, DigitsEnd(header, d))

(***************************************************************************)
(* The frames the client writes (client.ts:117-148).  A string of the      *)
(* program is the sequence of its UTF-16 code units; what reaches the      *)
(* subprocess's stdin is the UTF-8 encoding of the string written.         *)
(***************************************************************************)
\* the decimal digits of n, as a template literal and a server write a length
RECURSIVE Decimal(_)
Decimal(n) == IF n < 10 THEN <<48 + n>> ELSE Append(Decimal(n \div 10), 48 + (n % 10))

\* the halves of a surrogate pair
IsHighSurrogate(u) == u \in 55296 .. 56319
IsLowSurrogate(u) == u \in 56320 .. 57343

\* a lower-case hexadecimal digit
HexDigit(d) == IF d < 10 THEN 48 + d ELSE 87 + d

\* the escape \uXXXX of code unit u
UnicodeEscape(u) ==
  <<92, 117, HexDigit(u \div 4096), HexDigit((u \div 256) % 16),
    HexDigit((u \div 16) % 16), HexDigit(u % 16)>>

\* the concatenation of piece[lo], ..., piece[hi], by halves
RECURSIVE Join(_, _, _)
Join(piece, lo, hi) ==
  IF lo > hi THEN <<>>
  ELSE IF lo = hi THEN piece[lo]
  ELSE Join(piece, lo, (lo + hi) \div 2) \o Join(piece, (lo + hi) \div 2 + 1, hi)

\* is the i-th code unit of str the first, the second half of a surrogate pair
IsPairStart(str, i) ==
  i < Len(str) /\ IsHighSurrogate(str[i]) /\ IsLowSurrogate(str[i + 1])
IsPairEnd(str, i) == i > 1 /\ IsPairStart(str, i - 1)

\* JSON.stringify on the i-th code unit of string str: a surrogate pair is kept, the
\* quote, the backslash and the control characters are escaped, and so is a lone
\* surrogate
QuoteUnit(str, i) ==
  LET u == str[i]
  IN  IF IsPairStart(str, i) \/ IsPairEnd(str, i) THEN <<u>>
      ELSE IF u = 8 THEN <<92, 98>>
      ELSE IF u = 9 THEN <<92, 116>>
      ELSE IF u = 10 THEN <<92, 110>>
      ELSE IF u = 12 THEN <<92, 102>>
      ELSE IF u = 13 THEN <<92, 114>>
      ELSE IF u = 34 THEN <<92, 34>>
      ELSE IF u = 92 THEN <<92, 92>>
      ELSE IF u < 32 \/ IsHighSurrogate(u) \/ IsLowSurrogate(u) THEN UnicodeEscape(u)
      ELSE <<u>>

\* JSON.stringify(str) for a string
JsonString(str) ==
  <<34>> \o Join([i \in 1 .. Len(str) |-> QuoteUnit(str, i)], 1, Len(str)) \o <<34>>

\* the UTF-8 bytes of the i-th code unit of str: one to three bytes, the four bytes
\* of a surrogate pair at its first half, U+FFFD for a lone surrogate
Utf8Unit(str, i) ==
  LET u == str[i]
  IN  IF u < 128 THEN <<u>>
      ELSE IF u < 2048 THEN <<192 + (u \div 64), 128 + (u % 64)>>
      ELSE IF IsPairStart(str, i)
      THEN LET cp == 65536 + (u - 55296) * 1024 + (str[i + 1] - 56320)
           IN  <<240 + (cp \div 262144), 128 + ((cp \div 4096) % 64),
                 128 + ((cp \div 64) % 64), 128 + (cp % 64)>>
      ELSE IF IsPairEnd(str, i) THEN <<>>
      ELSE IF IsHighSurrogate(u) \/ IsLowSurrogate(u) THEN <<239, 191, 189>>
      ELSE <<224 + (u \div 4096), 128 + ((u \div 64) % 64), 128 + (u % 64)>>

\* is every code unit of str (every byte of a byte sequence) below 128
IsAscii(str) == \A i \in 1 .. Len(str) : str[i] < 128

\* the UTF-8 bytes of string str: what stdin.write(str) writes and
\* Buffer.byteLength(str) counts.  An ASCII string is its own encoding.
Utf8(str) ==
  IF IsAscii(str) THEN str
  ELSE Join([i \in 1 .. Len(str) |-> Utf8Unit(str, i)], 1, Len(str))

\* a header that declares the number of code units of the string, msg.length
stringLength(str) == Len(str)

\* client.ts:122,140,147: Buffer.byteLength(msg)
byteLength(str) == Len(Utf8(str))

\* is b a continuation byte
IsContinuation(b) == b \in 128 .. 191

\* the length of the well-formed UTF-8 sequence that begins at the i-th byte, or 0
\* when none begins there
SequenceLength(bytes, i) ==
  LET b == bytes[i]
      cont(k) == i + k <= Len(bytes) /\ IsContinuation(bytes[i + k])
  IN  IF b < 128 THEN 1
      ELSE IF b \in 194 .. 223 /\ cont(1) THEN 2
      ELSE IF /\ b \in 224 .. 239 /\ cont(1) /\ cont(2)
              /\ (b = 224 => bytes[i + 1] >= 160)
              /\ (b = 237 => bytes[i + 1] <= 159)
      THEN 3
      ELSE IF /\ b \in 240 .. 244 /\ cont(1) /\ cont(2) /\ cont(3)
              /\ (b = 240 => bytes[i + 1] >= 144)
              /\ (b = 244 => bytes[i + 1] <= 143)
      THEN 4
      ELSE 0

\* is the i-th byte a continuation byte of a well-formed sequence
InSequence(bytes, i) ==
  \E k \in 1 .. 3 : i - k >= 1 /\ SequenceLength(bytes, i - k) > k

\* TextDecoder.decode on the i-th byte: the code point of the sequence that begins
\* there, as one code unit or a surrogate pair; nothing for the bytes that continue
\* a sequence; U+FFFD for a byte that belongs to none
DecodeUnit(bytes, i) ==
  LET b == bytes[i]
      n == SequenceLength(bytes, i)
  IN  IF InSequence(bytes, i) THEN <<>>
      ELSE IF n = 1 THEN <<b>>
      ELSE IF n = 2 THEN <<(b - 192) * 64 + (bytes[i + 1] - 128)>>
      ELSE IF n = 3
      THEN <<(b - 224) * 4096 + (bytes[i + 1] - 128) * 64 + (bytes[i + 2] - 128)>>
      ELSE IF n = 4
      THEN LET cp == (b - 240) * 262144 + (bytes[i + 1] - 128) * 4096
                       + (bytes[i + 2] - 128) * 64 + (bytes[i + 3] - 128) - 65536
           IN  <<55296 + (cp \div 1024), 56320 + (cp % 1024)>>
      ELSE <<65533>>

\* client.ts:83,92: new TextDecoder().decode(bytes), which drops a leading byte
\* order mark.  ASCII bytes decode to themselves.
decode(bytes) ==
  LET from == IF Len(bytes) >= 3 /\ SubSeq(bytes, 1, 3) = <<239, 187, 191>> THEN 4 ELSE 1
  IN  IF IsAscii(bytes) THEN bytes
      ELSE Join([i \in 1 .. Len(bytes) |-> DecodeUnit(bytes, i)], from, Len(bytes))

\* a message the client writes: a request (id, method, params), a notification
\* (method) or a response (id, result); query is the string of a workspace/symbol
\* request's params
WireMessage(type, method, id, result, query) ==
  [type |-> type, method |-> method, id |-> id, result |-> result, query |-> query]

\* the pieces of the JSON text of a message
\*   {"jsonrpc":"2.0"
JSONRPC_MEMBER == <<123, 34, 106, 115, 111, 110, 114, 112, 99, 34, 58, 34, 50, 46, 48, 34>>
\*   ,"id":
ID_MEMBER == <<44, 34, 105, 100, 34, 58>>
\*   ,"method":
METHOD_MEMBER == <<44, 34, 109, 101, 116, 104, 111, 100, 34, 58>>
\*   ,"params":
PARAMS_MEMBER == <<44, 34, 112, 97, 114, 97, 109, 115, 34, 58>>
\*   ,"result":
RESULT_MEMBER == <<44, 34, 114, 101, 115, 117, 108, 116, 34, 58>>
\*   {"query":
QUERY_MEMBER == <<123, 34, 113, 117, 101, 114, 121, 34, 58>>

\* the code units of the method names written in this model
MethodName(method) ==
  IF method = "workspace/symbol"
  THEN <<119, 111, 114, 107, 115, 112, 97, 99, 101, 47, 115, 121, 109, 98, 111, 108>>
  ELSE IF method = "shutdown" THEN <<115, 104, 117, 116, 100, 111, 119, 110>>
  ELSE <<101, 120, 105, 116>>

\* JSON.stringify of the params of a request: { query } of workspaceSymbols
\* (client.ts:244), {} of stop (client.ts:260)
ParamsText(m) ==
  IF m.method = "workspace/symbol" THEN QUERY_MEMBER \o JsonString(m.query) \o <<125>>
  ELSE <<123, 125>>

\* JSON.stringify of the result of a response: [{}] or null (client.ts:152-156)
ResultText(result) ==
  IF result = "[{}]" THEN <<91, 123, 125, 93>> ELSE <<110, 117, 108, 108>>

\* client.ts:121,139,146: JSON.stringify of the message; a notification of this
\* model has no params, and a member that is undefined is left out
stringify(m) ==
  IF m.type = "request"
  THEN JSONRPC_MEMBER \o ID_MEMBER \o Decimal(m.id)
         \o METHOD_MEMBER \o JsonString(MethodName(m.method))
         \o PARAMS_MEMBER \o ParamsText(m) \o <<125>>
  ELSE IF m.type = "notification"
  THEN JSONRPC_MEMBER \o METHOD_MEMBER \o JsonString(MethodName(m.method)) \o <<125>>
  ELSE JSONRPC_MEMBER \o ID_MEMBER \o Decimal(m.id)
         \o RESULT_MEMBER \o ResultText(m.result) \o <<125>>

\* client.ts:122-123,140,147: the bytes written for message m, the header
\* "Content-Length: <byte length>\r\n\r\n" and the JSON text, as UTF-8
WrittenFrame(m) ==
  LET msg == stringify(m)
  IN  Utf8(CONTENT_LENGTH \o <<32>> \o Decimal(byteLength(msg)) \o CRLF_CRLF \o msg)

\* the strings a query holds in this model: two line feeds, the header
\* terminator, e acute (two bytes), a quote and the euro sign (three bytes), an
\* emoji (a surrogate pair, four bytes), a lone surrogate, and the text
\* "Content-Length:0"
Queries ==
  {<<10, 10>>, <<13, 10, 13, 10>>, <<233>>, <<34, 8364>>, <<55357, 56832>>, <<55357>>,
   CONTENT_LENGTH \o <<48>>}

\* the messages whose id member, if they have one, is id
WireMessages(id) ==
  {WireMessage("request", "workspace/symbol", id, "", q) : q \in Queries}
    \cup {WireMessage("request", "shutdown", id, "", <<>>)}
    \cup {WireMessage("notification", "exit", 0, "", <<>>)}
    \cup {WireMessage("response", "", id, result, <<>>) : result \in {"[{}]", "null"}}

(***************************************************************************)
(* JSON payloads.  A parsed payload is a record of what processBuffer      *)
(* looks at: is it an object, has it an id / a method member, and what its *)
(* error member is.                                                        *)
(***************************************************************************)
\* the payload {"id":k} for a one-digit k: a response without result and error
ResponseBytes(k) == <<123, 34, 105, 100, 34, 58, 48 + k, 125>>

\* the payload {}: an object without id
EmptyObjectBytes == <<123, 125>>

\* the payload { : not JSON
BadBytes == <<123>>

\* a parsed object: has it an id member (and which), a method member (and which),
\* and is its error member absent, an object, null or a string
Object(hasId, id, hasMethod, method, error) ==
  [kind |-> "object", hasId |-> hasId, id |-> id,
   hasMethod |-> hasMethod, method |-> method, error |-> error]

\* a payload JSON.parse throws on
Malformed ==
  [kind |-> "malformed", hasId |-> FALSE, id |-> 0,
   hasMethod |-> FALSE, method |-> "", error |-> "absent"]

\* a parsed payload that is no object (a number, null, a string): "id" in msg throws
Primitive ==
  [kind |-> "primitive", hasId |-> FALSE, id |-> 0,
   hasMethod |-> FALSE, method |-> "", error |-> "absent"]

\* the messages of the client whose JSON text has the bytes content: the id is read
\* off the text, the rest is compared
WrittenAs(content) ==
  LET head == JSONRPC_MEMBER \o ID_MEMBER
      id == IF Len(content) > Len(head) /\ SubSeq(content, 1, Len(head)) = head
            THEN parseInt(content, Len(head), DigitsEnd(content, Len(head)))
            ELSE 0
  IN  IF Len(content) > Len(JSONRPC_MEMBER)
           /\ SubSeq(content, 1, Len(JSONRPC_MEMBER)) = JSONRPC_MEMBER
      THEN {m \in WireMessages(id) : Utf8(stringify(m)) = content}
      ELSE {}

\* client.ts:96: JSON.parse(content) on the payloads of this model, those of the
\* server and those the client writes; any other byte sequence the framing can cut
\* out of them is not JSON
JSONParse(content) ==
  IF \E k \in 1 .. 9 : content = ResponseBytes(k)
  THEN Object(TRUE, At(content, 6) - 48, FALSE, "", "absent")
  ELSE IF content = EmptyObjectBytes THEN Object(FALSE, 0, FALSE, "", "absent")
  ELSE IF /\ content # <<>>
          /\ \A i \in 0 .. Len(content) - 1 : IsDigit(At(content, i))
          /\ (Len(content) = 1 \/ At(content, 0) # 48)
  THEN Primitive
  ELSE IF WrittenAs(content) # {}
  THEN LET m == CHOOSE w \in WrittenAs(content) : TRUE
       IN  Object(m.type # "notification", m.id, m.type # "response", m.method, "absent")
  ELSE Malformed

(***************************************************************************)
(* State                                                                   *)
(***************************************************************************)
VARIABLES
  \* the fields of LSPClient (client.ts:8-12)
  proc,         \* the subprocess handle: NoProc (null) or the subprocess's number
  buffer,       \* the bytes read from stdout and not yet consumed
  pending,      \* the ids of the pending table
  requestId,    \* the last id allocated
  openedFiles,  \* the paths announced with didOpen
  \* the environment of the client
  alive,        \* the subprocesses spawned and not killed
  spawned,      \* the number of subprocesses spawned so far
  io,           \* the frames written to a subprocess's stdin, and the kills, in order
  promise,      \* id -> the state of the promise send returned for it
  timers,       \* the ids whose 30 s timer is armed
  calls,        \* the calls of the client's public methods, in the order they were made
  \* the session orchestrator
  driver,       \* "session": withLspClient drives the client; "direct": its methods are called freely
  session,      \* the withLspClient call
  toolOut,      \* how the tool's execute, which made that call, ended
  \* the server registry
  registry,     \* the configuration file, cachedOpencodeConfig, and the reads of the file
  lookup,       \* the last call of findServerForExtension: its arguments and its result
  listing,      \* the last call of getAllServers: its result
  \* the workspace resolver
  walk,         \* the filesystem and the call of findWorkspaceRoot
  \* concurrent sessions
  pool,         \* the clients constructed, the subprocesses spawned, the withLspClient calls
  \* the hooks and the configuration migration
  exporter,     \* the state of the session auto-export hook and its environment
  trigger,      \* the state of the testing-agent trigger hook and its environment
  migration,    \* the last call of migrateAgentConfig: its arguments and its result
  \* the subprocess's output in the framing specification
  frames,       \* the frames the server wrote
  stream,       \* their bytes not yet read
  dispatched    \* the payloads handed to JSON.parse, in order

vars ==
  <<proc, buffer, pending, requestId, openedFiles, alive, spawned, io, promise,
    timers, calls, driver, session, toolOut, registry, lookup, listing, walk, pool,
    exporter, trigger, migration, frames, stream, dispatched>>

\* client.ts:8: this.proc = null
NoProc == 0

(***************************************************************************)
(* The client and its environment as one record w, which the operators     *)
(* below transform; an action assigns the variables from the result.       *)
(***************************************************************************)
World ==
  [proc |-> proc, pending |-> pending, requestId |-> requestId,
   openedFiles |-> openedFiles, alive |-> alive, spawned |-> spawned,
   io |-> io, promise |-> promise, timers |-> timers]

SetWorld(w) ==
  /\ proc' = w.proc
  /\ pending' = w.pending
  /\ requestId' = w.requestId
  /\ openedFiles' = w.openedFiles
  /\ alive' = w.alive
  /\ spawned' = w.spawned
  /\ io' = w.io
  /\ promise' = w.promise
  /\ timers' = w.timers

\* a frame written to stdin (or a kill) as the io log records it
IoEntry(type, method, id) == [type |-> type, method |-> method, id |-> id, result |-> ""]

\* a response frame: no method, the id and the result as JSON text
ResponseEntry(id, result) == [type |-> "response", method |-> "", id |-> id, result |-> result]

\* a respond that numbers its frame like a request of the client
respondWithNewId(c, id, result) ==
  IF c.proc = NoProc THEN c
  ELSE [c EXCEPT !.requestId = @ + 1, !.io = Append(@, ResponseEntry(c.requestId + 1, result))]

\* client.ts:143-148: respond writes a response frame keyed to the server's id
respond(c, id, result) ==
  IF c.proc = NoProc THEN c
  ELSE [c EXCEPT !.io = Append(@, ResponseEntry(id, result))]

\* a handler that answers every server-initiated request with null
handleEveryServerRequest(c, id, method) == respond(c, id, "null")

\* client.ts:150-158: the three server-initiated requests that are answered, with
\* [{}] or null
handleServerRequest(c, id, method) ==
  IF method = "workspace/configuration" THEN respond(c, id, "[{}]")
  ELSE IF method = "client/registerCapability" THEN respond(c, id, "null")
  ELSE IF method = "window/workDoneProgress/create" THEN respond(c, id, "null")
  ELSE c

\* client.ts:106-110: the handler of a matching response; msg.error.message throws a
\* TypeError when the error member is null, which the catch of line 112 swallows
SettleByResponse(c, msg) ==
  IF msg.error # "absent"
  THEN IF msg.error = "null" THEN c
       ELSE [c EXCEPT !.promise[msg.id] = "rejected"]
  ELSE [c EXCEPT !.promise[msg.id] = "resolved"]

\* a correlation by order of arrival instead of by id: a response settles the oldest
\* pending request, whatever id it carries
DispatchInOrder(c, msg) ==
  IF msg.kind # "object" THEN c
  ELSE IF msg.hasId /\ msg.hasMethod THEN handleServerRequest(c, msg.id, msg.method)
  ELSE IF msg.hasId /\ c.pending # {}
  THEN LET k == CHOOSE k \in c.pending : \A j \in c.pending : k <= j
       IN  SettleByResponse([c EXCEPT !.pending = @ \ {k}], [msg EXCEPT !.id = k])
  ELSE c

\* a dispatch that looks for a pending entry with the frame's id before it looks
\* for a method
DispatchResponseFirst(c, msg) ==
  IF msg.kind # "object" THEN c
  ELSE IF msg.hasId /\ msg.id \in c.pending
  THEN SettleByResponse([c EXCEPT !.pending = @ \ {msg.id}], msg)
  ELSE IF msg.hasId /\ msg.hasMethod THEN handleServerRequest(c, msg.id, msg.method)
  ELSE c

\* client.ts:95-113: what processBuffer does with one parsed payload
Dispatch(c, msg) ==
  IF msg.kind # "object" THEN c
  ELSE IF msg.hasId /\ msg.hasMethod THEN handleServerRequest(c, msg.id, msg.method)
  ELSE IF msg.hasId /\ msg.id \in c.pending
  THEN SettleByResponse([c EXCEPT !.pending = @ \ {msg.id}], msg)
  ELSE c

\* what one run of processBuffer leaves: the buffer, the client and the payloads
\* decoded (log)
Processed(buf, c, log) == [buffer |-> buf, c |-> c, dispatched |-> log]

\* client.ts:64-115: processBuffer on buffer buf, one turn of the while loop after
\* the other.  TextDecoder.decode is the identity on the ASCII bytes of this model.
RECURSIVE processBuffer(_, _, _)

\* an extraction that removes the header and its terminator and leaves the payload
\* in the buffer
ExtractFrameKeepPayload(b, start, len, c, log) ==
  IF len = -1 \/ Len(b) < start + len THEN Processed(b, c, log)
  ELSE processBuffer(Slice(b, start, Len(b)),
                     Dispatch(c, JSONParse(Slice(b, start, start + len))),
                     Append(log, Slice(b, start, start + len)))

\* client.ts:87-113: the frame's payload is cut out, parsed and dispatched, when the
\* buffer holds all of it
ExtractFrame(b, start, len, c, log) ==
  IF len = -1 \/ Len(b) < start + len THEN Processed(b, c, log)
  ELSE processBuffer(Slice(b, start + len, Len(b)),
                     Dispatch(c, JSONParse(Slice(b, start, start + len))),
                     Append(log, Slice(b, start, start + len)))

\* client.ts:81-88: the header is the text before the terminator
ParseHeader(b, headerEnd, sepLen, c, log) ==
  IF headerEnd = -1 THEN Processed(b, c, log)
  ELSE ExtractFrame(b, headerEnd + sepLen, HeaderLength(Slice(b, 0, headerEnd)), c, log)

\* client.ts:75-80: CRLFCRLF anywhere in the buffer is preferred to LFLF
FindTerminator(b, crlf, c, log) ==
  IF crlf = -1 THEN ParseHeader(b, findSequence(b, LF_LF), 2, c, log)
  ELSE ParseHeader(b, crlf, 4, c, log)

\* client.ts:73-75: the bytes before the header name are dropped
DropNoise(b, c, log) == FindTerminator(b, findSequence(b, CRLF_CRLF), c, log)

\* client.ts:71-73
FindHeader(buf, headerStart, c, log) ==
  IF headerStart = -1 THEN Processed(buf, c, log)
  ELSE IF headerStart > 0 THEN DropNoise(Slice(buf, headerStart, Len(buf)), c, log)
  ELSE DropNoise(buf, c, log)

processBuffer(buf, c, log) == FindHeader(buf, findSequence(buf, CONTENT_LENGTH), c, log)

(***************************************************************************)
(* The methods of LSPClient.  A call of a public method is a record        *)
(*   op   the method                                                       *)
(*   pc   where the call is suspended: "await_request" (on the promise of  *)
(*        request req), "settle_delay" (initialize's 500 ms), "open_delay" *)
(*        (openFile's 2000 ms), "diagnostics_delay" (1000 ms), or "done"   *)
(*   req  the request the call sent (0: none), file the file operated on   *)
(*   out  "running", "returned" or "threw"                                 *)
(* A method runs from one suspension to the next in one step, as the       *)
(* event loop runs it.                                                     *)
(***************************************************************************)
Call(op, pc, req, file, out) ==
  [op |-> op, pc |-> pc, req |-> req, file |-> file, out |-> out]

\* a call that ended before it sent a request
Done(op, file, out) == Call(op, "done", 0, file, out)

\* the suspended call c ends
Finish(c, out) == [c EXCEPT !.pc = "done", !.out = out]

\* the files the tools are asked about
Files == {"/repo/a.ts"}

\* the operations that open their file first (client.ts:209-243, 249)
PositionOps == {"hover", "definition", "references", "documentSymbols", "diagnostics"}

\* the operations of the six closures of tools.ts
FnOps == PositionOps \cup {"workspaceSymbols"}

\* the request method each operation sends (client.ts:212, 221, 230, 240, 246, 253)
MethodOf(op) ==
  CASE op = "hover" -> "textDocument/hover"
    [] op = "definition" -> "textDocument/definition"
    [] op = "references" -> "textDocument/references"
    [] op = "documentSymbols" -> "textDocument/documentSymbol"
    [] op = "workspaceSymbols" -> "workspace/symbol"
    [] op = "diagnostics" -> "textDocument/diagnostic"

\* the request methods of the operations
OperationMethods == {MethodOf(op) : op \in FnOps}

\* the public methods a direct caller invokes: the lifecycle methods, one operation
\* that opens its file and the one that does not.  definition, references and
\* documentSymbols differ from hover in the request method only, diagnostics in one
\* more delay; the sessions run all six
DirectOps == {"start", "initialize", "stop", "hover", "workspaceSymbols"}

\* a send without its first line, the test of this.proc
sendWithoutGuard(w, method) ==
  LET id == w.requestId + 1
  IN  [ok |-> TRUE, id |-> id,
       w |-> [w EXCEPT !.requestId = id,
                       !.io = Append(@, IoEntry("request", method, id)),
                       !.pending = @ \cup {id},
                       !.promise = Append(@, "waiting"),
                       !.timers = @ \cup {id}]]

\* a send that computes the id as this.requestId + 1 and does not store it
sendWithoutIncrement(w, method) ==
  IF w.proc = NoProc THEN [ok |-> FALSE, id |-> 0, w |-> w]
  ELSE LET id == w.requestId + 1
       IN  [ok |-> TRUE, id |-> id,
            w |-> [w EXCEPT !.io = Append(@, IoEntry("request", method, id)),
                            !.pending = @ \cup {id},
                            !.promise = Append(@, "waiting"),
                            !.timers = @ \cup {id}]]

\* client.ts:117-134: send.  ok is FALSE when it throws "LSP client not started";
\* otherwise the request is written, registered as pending and its timer armed
send(w, method) ==
  IF w.proc = NoProc THEN [ok |-> FALSE, id |-> 0, w |-> w]
  ELSE LET id == w.requestId + 1
       IN  [ok |-> TRUE, id |-> id,
            w |-> [w EXCEPT !.requestId = id,
                            !.io = Append(@, IoEntry("request", method, id)),
                            !.pending = @ \cup {id},
                            !.promise = Append(@, "waiting"),
                            !.timers = @ \cup {id}]]

\* a timer callback that fails the caller and forgets this.pending.delete(id)
timeoutKeepsEntry(w, id) ==
  IF id \in w.pending
  THEN [w EXCEPT !.timers = @ \ {id}, !.promise[id] = "timeout"]
  ELSE [w EXCEPT !.timers = @ \ {id}]

\* client.ts:127-132: the timer of request id fires
timeout(w, id) ==
  IF id \in w.pending
  THEN [w EXCEPT !.timers = @ \ {id}, !.pending = @ \ {id}, !.promise[id] = "timeout"]
  ELSE [w EXCEPT !.timers = @ \ {id}]

\* client.ts:136-141: notify writes a frame without id, or nothing without subprocess
notify(w, method) ==
  IF w.proc = NoProc THEN w
  ELSE [w EXCEPT !.io = Append(@, IoEntry("notification", method, 0))]

\* client.ts:264-265: this.proc?.kill(); this.proc = null
kill(w) ==
  IF w.proc = NoProc THEN w
  ELSE [w EXCEPT !.alive = @ \ {w.proc},
                 !.io = Append(@, IoEntry("kill", "", w.proc)),
                 !.proc = NoProc]

\* client.ts:19-31: start; spawn throws when the command cannot be run
start(w, spawnOk) ==
  IF ~spawnOk THEN [w |-> w, call |-> Done("start", "", "threw")]
  ELSE [w |-> [w EXCEPT !.proc = w.spawned + 1,
                        !.alive = @ \cup {w.spawned + 1},
                        !.spawned = @ + 1],
        call |-> Done("start", "", "returned")]

\* a method sends its request and suspends on the promise, or throws with send
SendAndAwait(w, op, file, method) ==
  LET s == send(w, method)
  IN  IF s.ok THEN [w |-> s.w, call |-> Call(op, "await_request", s.id, file, "running")]
      ELSE [w |-> w, call |-> Done(op, file, "threw")]

\* client.ts:160-162: initialize up to its await
initialize(w) == SendAndAwait(w, "initialize", "", "initialize")

\* a stop without the try/catch around its send: "LSP client not started" escapes
stopWithoutCatch(w) == SendAndAwait(w, "stop", "", "shutdown")

\* client.ts:258-266: stop up to its await; a send that throws is caught and the
\* kill follows at once
stop(w) ==
  LET r == SendAndAwait(w, "stop", "", "shutdown")
  IN  IF r.call.out = "threw" THEN [w |-> kill(w), call |-> Done("stop", "", "returned")]
      ELSE r

\* an openFile that sends the notification and does not record the file
openFileWithoutAdd(w, file, readOk) ==
  IF file \in w.openedFiles THEN [w |-> w, state |-> "already"]
  ELSE IF ~readOk THEN [w |-> w, state |-> "threw"]
  ELSE [w |-> notify(w, "textDocument/didOpen"), state |-> "opened"]

\* client.ts:188-207: openFile up to its await: "already" opened, "opened" now, or
\* "threw" (readFileSync failed)
openFile(w, file, readOk) ==
  IF file \in w.openedFiles THEN [w |-> w, state |-> "already"]
  ELSE IF ~readOk THEN [w |-> w, state |-> "threw"]
  ELSE [w |-> [notify(w, "textDocument/didOpen") EXCEPT !.openedFiles = @ \cup {file}],
        state |-> "opened"]

\* client.ts:209-256: an operation up to its first await
operation(w, op, file, readOk) ==
  IF op = "workspaceSymbols" THEN SendAndAwait(w, op, "", MethodOf(op))
  ELSE LET o == openFile(w, file, readOk)
       IN  IF o.state = "threw" THEN [w |-> w, call |-> Done(op, file, "threw")]
           ELSE IF o.state = "opened"
           THEN [w |-> o.w, call |-> Call(op, "open_delay", 0, file, "running")]
           ELSE IF op = "diagnostics"
           THEN [w |-> w, call |-> Call(op, "diagnostics_delay", 0, file, "running")]
           ELSE SendAndAwait(w, op, file, MethodOf(op))

\* a call of a public method, up to its first await
Invoke(w, op, file, ok) ==
  CASE op = "start" -> start(w, ok)
    [] op = "initialize" -> initialize(w)
    [] op = "stop" -> stop(w)
    [] OTHER -> operation(w, op, file, ok)

\* can the suspended call c go on: its request is settled, or its delay may elapse
CanResume(w, c) ==
  /\ c.out = "running"
  /\ c.pc = "await_request" => w.promise[c.req] # "waiting"

\* an initialize that writes its notifications however its request ended
ResumeInitializeUnchecked(w, c) ==
  IF c.pc = "settle_delay" THEN [w |-> w, call |-> Finish(c, "returned")]
  ELSE [w |-> notify(notify(w, "initialized"), "workspace/didChangeConfiguration"),
        call |-> [c EXCEPT !.pc = "settle_delay"]]

\* client.ts:183-186: initialize after the response
ResumeInitialize(w, c) ==
  IF c.pc = "settle_delay" THEN [w |-> w, call |-> Finish(c, "returned")]
  ELSE IF w.promise[c.req] = "resolved"
  THEN [w |-> notify(notify(w, "initialized"), "workspace/didChangeConfiguration"),
        call |-> [c EXCEPT !.pc = "settle_delay"]]
  ELSE [w |-> w, call |-> Finish(c, "threw")]

\* client.ts:261-265: stop after the shutdown request is settled
ResumeStop(w, c) ==
  IF w.promise[c.req] = "resolved"
  THEN [w |-> kill(notify(w, "exit")), call |-> Finish(c, "returned")]
  ELSE [w |-> kill(w), call |-> Finish(c, "returned")]

\* client.ts:211-212, 252-253: an operation after a delay or after its response
ResumeOperation(w, c) ==
  IF c.pc = "await_request"
  THEN [w |-> w,
        call |-> Finish(c, IF w.promise[c.req] = "resolved" THEN "returned" ELSE "threw")]
  ELSE IF c.pc = "open_delay" /\ c.op = "diagnostics"
  THEN [w |-> w, call |-> Call(c.op, "diagnostics_delay", 0, c.file, "running")]
  ELSE SendAndAwait(w, c.op, c.file, MethodOf(c.op))

\* the suspended call c runs to its next await or to its end
Continue(w, c) ==
  CASE c.op = "initialize" -> ResumeInitialize(w, c)
    [] c.op = "stop" -> ResumeStop(w, c)
    [] OTHER -> ResumeOperation(w, c)

(***************************************************************************)
(* The frames the server may send, as parsed payloads                      *)
(***************************************************************************)
\* the server-initiated requests of client.ts:151-155, and one that is not answered
AnsweredMethods ==
  {"workspace/configuration", "client/registerCapability", "window/workDoneProgress/create"}

ServerMethods == AnsweredMethods \cup {"window/showMessageRequest"}

\* the ids a frame may carry: those the client can allocate and one it never does
FrameIds == 1 .. MaxReq + 1

\* responses: an id, no method, and an error member that is absent or any JSON value
Responses ==
  {Object(TRUE, id, FALSE, "", e) :
     id \in FrameIds, e \in {"absent", "object", "null", "string"}}

\* server-initiated requests: an id of the server's own numbering, which may equal
\* an id of the client, and a method
ServerRequests == {Object(TRUE, 1, TRUE, m, "absent") : m \in ServerMethods}

\* those of them that get no reply
UnansweredRequests == {m \in ServerRequests : m.method \notin AnsweredMethods}

\* notifications and other objects without id
Notifications ==
  {Object(FALSE, 0, TRUE, "textDocument/publishDiagnostics", "absent"),
   Object(FALSE, 0, FALSE, "", "absent")}

\* the frames of the request/response specification: every frame that makes the
\* client write nothing
Messages == Responses \cup UnansweredRequests \cup Notifications \cup {Malformed, Primitive}

(***************************************************************************)
(* The server registry (tools.ts:219-361).  The lsp object of the          *)
(* configuration file is the sequence of its entries, in the order of the  *)
(* file; its keys, the ids, are distinct.  A file that parses holds an     *)
(* object of the type OpencodeJson.                                        *)
(***************************************************************************)
\* tools.ts:207-213: an entry of the lsp object; command and extensions may be absent
Entry(id, disabled, hasCommand, command, hasExtensions, extensions) ==
  [id |-> id, disabled |-> disabled, hasCommand |-> hasCommand, command |-> command,
   hasExtensions |-> hasExtensions, extensions |-> extensions]

\* tools.ts:199-205: a server as findServerForExtension returns it
Server(id, command, extensions) == [id |-> id, command |-> command, extensions |-> extensions]

\* tools.ts:298: return null
NoServer == Server("", <<>>, {})

\* the table of built-in servers, in the order of Object.entries: two servers for
\* the same extension
BUILTIN_SERVERS ==
  << Server("typescript", <<"typescript-language-server", "--stdio">>, {".ts"}),
     Server("deno", <<"deno", "lsp">>, {".ts"}) >>

\* the extensions looked up: one the built-in servers handle, one they do not
Exts == {".ts", ".py"}

\* the commands that may exist in a directory of PATH
Commands == {"typescript-language-server", "deno", "custom-ls"}

\* the ids of the entries of the configuration: the id of a built-in server, a
\* new name, and a new id that is a canonical array index
EntryIds == {"typescript", "custom", "1"}

\* the ids that are canonical array indices
IndexIds == {"1"}

\* the command configured under an id, where one is
UserCommand(id) == IF id \in IndexIds THEN <<"deno", "lsp">> ELSE <<"custom-ls">>

\* the names of the members every object inherits from Object.prototype that the
\* configuration of this model uses as an id
InheritedNames == {"constructor"}

\* the entries the configuration may hold: without command or extensions, with
\* an empty command, with a command for either extension; disabled alone or together
\* with a command and extensions; and a disabled entry under an inherited name
Entries ==
  {Entry(id, d, FALSE, <<>>, FALSE, {}) : id \in EntryIds, d \in BOOLEAN} \cup
  {Entry(id, FALSE, FALSE, <<>>, TRUE, {".ts"}) : id \in EntryIds} \cup
  {Entry(id, FALSE, TRUE, <<>>, TRUE, {".ts"}) : id \in EntryIds} \cup
  {Entry(id, FALSE, TRUE, UserCommand(id), FALSE, {}) : id \in EntryIds} \cup
  {Entry(id, FALSE, TRUE, UserCommand(id), TRUE, {".py"}) : id \in EntryIds} \cup
  {Entry(id, d, TRUE, UserCommand(id), TRUE, {".ts"}) : id \in EntryIds, d \in BOOLEAN} \cup
  {Entry(id, TRUE, FALSE, <<>>, FALSE, {}) : id \in InheritedNames}

\* the configuration file: absent, not JSON, or an object with its lsp entries
File(kind, lsp) == [kind |-> kind, lsp |-> lsp]

\* the lsp objects of at most MaxUser entries with distinct ids
LspObjects ==
  {l \in UNION {[1 .. n -> Entries] : n \in 0 .. MaxUser} :
     \A i, j \in 1 .. Len(l) : i # j => l[i].id # l[j].id}

ConfigFiles ==
  {File("absent", <<>>), File("unparsable", <<>>)} \cup {File("json", l) : l \in LspObjects}

\* the registry of a process: its configuration file, cachedOpencodeConfig (null
\* until the first load) and the number of times the file was read
Registry(file, cached, config, reads) ==
  [file |-> file, cached |-> cached, config |-> config, reads |-> reads]

\* tools.ts:219-236: loadOpencodeJson: the lsp entries of the configuration, and
\* the registry with the cache filled.  cached is the truth value of
\* cachedOpencodeConfig, which line 220 tests: a file of kind "falsy" holds the
\* JSON text false, 0 or "", which JSON.parse accepts, which has no lsp member, and
\* which line 226 stores in the cache
loadOpencodeJson(reg) ==
  IF reg.cached THEN reg
  ELSE IF reg.file.kind = "falsy"
  THEN Registry(reg.file, FALSE, <<>>, reg.reads + 1)
  ELSE IF reg.file.kind = "json"
  THEN Registry(reg.file, TRUE, reg.file.lsp, reg.reads + 1)
  ELSE IF reg.file.kind = "unparsable"
  THEN Registry(reg.file, TRUE, <<>>, reg.reads + 1)
  ELSE Registry(reg.file, TRUE, <<>>, reg.reads)

\* tools.ts:239,254: a call of findServerForExtension or of getAllServers loads the
\* configuration twice, in getUserLspServers and in getDisabledServers
loadForCall(reg) == loadOpencodeJson(loadOpencodeJson(reg))

\* Object.entries of the parsed lsp object (tools.ts:243, 258): the keys that are
\* canonical array indices come first, in ascending order, then the other keys in
\* the order of the file
ObjectEntries(lsp) ==
  SelectSeq(lsp, LAMBDA e : e.id \in IndexIds) \o SelectSeq(lsp, LAMBDA e : e.id \notin IndexIds)

\* tools.ts:238-251: the ids of the entries marked disabled
getDisabledServers(lsp) == {lsp[i].id : i \in {j \in 1 .. Len(lsp) : lsp[j].disabled}}

\* tools.ts:259-260: the entries that make a server
IsUserServer(entry) == ~entry.disabled /\ entry.hasCommand /\ entry.hasExtensions

\* tools.ts:262-268
ServerOf(entry) == Server(entry.id, entry.command, entry.extensions)

\* tools.ts:253-273: the user-defined servers, in the order of the configuration
RECURSIVE UserServersFrom(_, _)
UserServersFrom(lsp, i) ==
  IF i > Len(lsp) THEN <<>>
  ELSE IF IsUserServer(lsp[i]) THEN <<ServerOf(lsp[i])>> \o UserServersFrom(lsp, i + 1)
  ELSE UserServersFrom(lsp, i + 1)

getUserLspServers(lsp) == UserServersFrom(ObjectEntries(lsp), 1)

\* tools.ts:305-319: the command's first token exists in a directory of PATH
isServerInstalled(command, path) == command # <<>> /\ command[1] \in path

\* tools.ts:279-283: the first user-defined server from position i on that lists the
\* extension and is installed
RECURSIVE FindUser(_, _, _, _)
FindUser(userServers, path, ext, i) ==
  IF i > Len(userServers) THEN NoServer
  ELSE IF ext \in userServers[i].extensions /\ isServerInstalled(userServers[i].command, path)
  THEN userServers[i]
  ELSE FindUser(userServers, path, ext, i + 1)

\* a search of the built-in servers that does not skip the ids of user-defined servers
RECURSIVE FindBuiltinUnshadowed(_, _, _, _, _)
FindBuiltinUnshadowed(userServers, disabledServers, path, ext, i) ==
  IF i > Len(BUILTIN_SERVERS) THEN NoServer
  ELSE IF BUILTIN_SERVERS[i].id \in disabledServers
  THEN FindBuiltinUnshadowed(userServers, disabledServers, path, ext, i + 1)
  ELSE IF /\ ext \in BUILTIN_SERVERS[i].extensions
          /\ isServerInstalled(BUILTIN_SERVERS[i].command, path)
  THEN BUILTIN_SERVERS[i]
  ELSE FindBuiltinUnshadowed(userServers, disabledServers, path, ext, i + 1)

\* tools.ts:285-296: the first built-in server from position i on that is neither
\* disabled nor has the id of a user-defined server, lists the extension and is installed
RECURSIVE FindBuiltin(_, _, _, _, _)
FindBuiltin(userServers, disabledServers, path, ext, i) ==
  IF i > Len(BUILTIN_SERVERS) THEN NoServer
  ELSE IF BUILTIN_SERVERS[i].id \in disabledServers
  THEN FindBuiltin(userServers, disabledServers, path, ext, i + 1)
  ELSE IF \E j \in 1 .. Len(userServers) : userServers[j].id = BUILTIN_SERVERS[i].id
  THEN FindBuiltin(userServers, disabledServers, path, ext, i + 1)
  ELSE IF /\ ext \in BUILTIN_SERVERS[i].extensions
          /\ isServerInstalled(BUILTIN_SERVERS[i].command, path)
  THEN BUILTIN_SERVERS[i]
  ELSE FindBuiltin(userServers, disabledServers, path, ext, i + 1)

\* a lookup that does not ask whether the built-in server is installed
findServerNotInstalled(lsp, path, ext) ==
  LET user == FindUser(getUserLspServers(lsp), path, ext, 1)
  IN  IF user # NoServer THEN user
      ELSE FindBuiltin(getUserLspServers(lsp), getDisabledServers(lsp), Commands, ext, 1)

\* tools.ts:275-299: findServerForExtension on the configuration lsp
findServerForExtension(lsp, path, ext) ==
  LET user == FindUser(getUserLspServers(lsp), path, ext, 1)
  IN  IF user # NoServer THEN user
      ELSE FindBuiltin(getUserLspServers(lsp), getDisabledServers(lsp), path, ext, 1)

\* a call of findServerForExtension as lookup records it
Lookup(called, ext, path, server) ==
  [called |-> called, ext |-> ext, path |-> path, server |-> server]

\* an element of the result of getAllServers (tools.ts:321)
Listed(id, installed, extensions, disabled) ==
  [id |-> id, installed |-> installed, extensions |-> extensions, disabled |-> disabled]

\* a call of getAllServers as listing records it: did it throw, and the array it
\* returned
Listing(called, threw, servers) == [called |-> called, threw |-> threw, servers |-> servers]

\* no call yet
NoListing == Listing(FALSE, FALSE, <<>>)

\* the ids of the servers
IdsOf(servers) == {servers[i].id : i \in 1 .. Len(servers)}

\* has the table BUILTIN_SERVERS a key id of its own
IsBuiltin(id) == id \in IdsOf(BUILTIN_SERVERS)

\* tools.ts:339: BUILTIN_SERVERS[id] for a key of the table
BuiltinOf(id) == BUILTIN_SERVERS[CHOOSE i \in 1 .. Len(BUILTIN_SERVERS) : BUILTIN_SERVERS[i].id = id]

\* tools.ts:327-335: the user-defined servers, none of them disabled
ListUser(userServers, path) ==
  [i \in 1 .. Len(userServers) |->
     Listed(userServers[i].id, isServerInstalled(userServers[i].command, path),
            userServers[i].extensions, FALSE)]

\* tools.ts:337-338: the disabled ids, in the order getDisabledServers added them to
\* its Set, without those seen among the user-defined servers
DisabledIds(lsp) ==
  LET marked == SelectSeq(ObjectEntries(lsp), LAMBDA e : e.disabled)
      unseen == SelectSeq(marked, LAMBDA e : e.id \notin IdsOf(getUserLspServers(lsp)))
  IN  [i \in 1 .. Len(unseen) |-> unseen[i].id]

\* tools.ts:339-342: BUILTIN_SERVERS[id] is a member the table inherits, which has
\* no command, and isServerInstalled(undefined) throws a TypeError at tools.ts:306
ThrowsOn(id) == ~IsBuiltin(id) /\ id \in InheritedNames

\* tools.ts:337-347: the disabled ids, with the command and the extensions of the
\* built-in server of that id where there is one
ListDisabled(ids, path) ==
  [i \in 1 .. Len(ids) |->
     IF IsBuiltin(ids[i])
     THEN Listed(ids[i], isServerInstalled(BuiltinOf(ids[i]).command, path),
                 BuiltinOf(ids[i]).extensions, TRUE)
     ELSE Listed(ids[i], FALSE, {}, TRUE)]

\* tools.ts:349-358: the built-in servers whose id was not seen
ListBuiltin(seen, path) ==
  LET unseen == SelectSeq(BUILTIN_SERVERS, LAMBDA b : b.id \notin seen)
  IN  [i \in 1 .. Len(unseen) |->
         Listed(unseen[i].id, isServerInstalled(unseen[i].command, path),
                unseen[i].extensions, FALSE)]

\* tools.ts:321-361: getAllServers on the configuration lsp
getAllServers(lsp, path) ==
  LET user == ListUser(getUserLspServers(lsp), path)
      ids == DisabledIds(lsp)
  IN  IF \E i \in 1 .. Len(ids) : ThrowsOn(ids[i]) THEN Listing(TRUE, TRUE, <<>>)
      ELSE Listing(TRUE, FALSE,
                   user \o ListDisabled(ids, path)
                        \o ListBuiltin(IdsOf(user) \cup IdsOf(ListDisabled(ids, path)), path))

(***************************************************************************)
(* The workspace resolver, findWorkspaceRoot (part_003:8-27).  A path is   *)
(* the sequence of its segments below the root "/", which is <<>>; the     *)
(* functions of the path module are those of a POSIX system.  The          *)
(* filesystem is the set of its directories and the set of its files.      *)
(***************************************************************************)
\* a path as the caller gives it: absolute or relative to the working directory,
\* with segments that may be ".."
FilePath(absolute, segments) == [absolute |-> absolute, segments |-> segments]

\* the working directory of the process
CWD == <<"p">>

\* path.dirname: the parent; the root is its own parent
dirname(path) == IF path = <<>> THEN <<>> ELSE SubSeq(path, 1, Len(path) - 1)

\* path.join(dir, marker)
join(dir, name) == Append(dir, name)

\* path.resolve: the segments applied from left to right, ".." leaving a directory
RECURSIVE ResolveFrom(_, _, _)
ResolveFrom(path, segments, i) ==
  IF i > Len(segments) THEN path
  ELSE IF segments[i] = ".." THEN ResolveFrom(dirname(path), segments, i + 1)
  ELSE ResolveFrom(Append(path, segments[i]), segments, i + 1)

resolve(filePath) ==
  ResolveFrom(IF filePath.absolute THEN <<>> ELSE CWD, filePath.segments, 1)

\* a filesystem
Fs(dirs, files) == [dirs |-> dirs, files |-> files]

\* fs.existsSync
existsSync(fs, path) == path \in fs.dirs \cup fs.files

\* fs.statSync(path).isDirectory()
isDirectory(fs, path) == path \in fs.dirs

\* part_003:15
markers ==
  <<".git", "package.json", "pyproject.toml", "Cargo.toml", "go.mod", "pom.xml", "build.gradle">>

\* part_003:18-22: some marker exists in dir
HasMarker(fs, dir) == \E m \in 1 .. Len(markers) : existsSync(fs, join(dir, markers[m]))

\* the filesystem and a call of findWorkspaceRoot: pc is "idle", "loop" or "done", dir
\* the local of the loop, out the directory returned
Walk(fs, filePath, pc, dir, out) ==
  [fs |-> fs, filePath |-> filePath, pc |-> pc, dir |-> dir, out |-> out]

NoWalk == Walk(Fs({<<>>}, {}), FilePath(TRUE, <<>>), "idle", <<>>, <<>>)

\* part_003:9-13: the directory the walk starts from
StartDir(fs, filePath) ==
  IF ~existsSync(fs, resolve(filePath)) \/ ~isDirectory(fs, resolve(filePath))
  THEN dirname(resolve(filePath))
  ELSE resolve(filePath)

\* a loop that returns the root when it reaches it
WalkUpToRoot(k) ==
  IF k.dir # <<>>
  THEN IF HasMarker(k.fs, k.dir) THEN [k EXCEPT !.pc = "done", !.out = k.dir]
       ELSE [k EXCEPT !.dir = dirname(k.dir)]
  ELSE [k EXCEPT !.pc = "done", !.out = k.dir]

\* part_003:17-26: one test of the loop condition, with the iteration or the
\* return that follows it
WalkUp(k) ==
  IF k.dir # <<>>
  THEN IF HasMarker(k.fs, k.dir) THEN [k EXCEPT !.pc = "done", !.out = k.dir]
       ELSE [k EXCEPT !.dir = dirname(k.dir)]
  ELSE [k EXCEPT !.pc = "done", !.out = dirname(resolve(k.filePath))]

(***************************************************************************)
(* Concurrent calls of withLspClient (part_003:29-49), each seen from      *)
(* outside its client: the clients constructed, with the call that         *)
(* constructed each, and the subprocesses spawned, with the client that    *)
(* spawned each.                                                           *)
(***************************************************************************)
\* an LSPClient: the call that constructed it and its field proc
Client(owner, clientProc) == [owner |-> owner, proc |-> clientProc]

\* a subprocess: the client whose start spawned it, and whether it runs
Subprocess(client, running) == [client |-> client, running |-> running]

\* a withLspClient call: pc is "idle", "initialize", "fn", "stop" or "done"; client
\* its local (0 before the constructor ran); out how it ended
PoolCall(pc, client, out) == [pc |-> pc, client |-> client, out |-> out]

Pool(clients, procs, sessions) == [clients |-> clients, procs |-> procs, sessions |-> sessions]

NoPool == Pool(<<>>, <<>>, [i \in 1 .. MaxSessions |-> PoolCall("idle", 0, "running")])

\* a constructor call that hands out the client an earlier call constructed
constructShared(p, i) ==
  IF p.clients # <<>> THEN [p |-> p, client |-> 1]
  ELSE [p |-> [p EXCEPT !.clients = Append(@, Client(i, NoProc))],
        client |-> Len(p.clients) + 1]

\* part_003:39: new LSPClient(root, server) in call i
construct(p, i) ==
  [p |-> [p EXCEPT !.clients = Append(@, Client(i, NoProc))], client |-> Len(p.clients) + 1]

\* client.ts:19-31: start of client c
poolStart(p, c) ==
  [p EXCEPT !.procs = Append(@, Subprocess(c, TRUE)), !.clients[c].proc = Len(p.procs) + 1]

\* client.ts:264-265: the end of stop of client c
poolStop(p, c) ==
  IF p.clients[c].proc = NoProc THEN p
  ELSE [p EXCEPT !.procs[p.clients[c].proc].running = FALSE, !.clients[c].proc = NoProc]

\* part_003:30-41: call i up to its first await
withLspClientBegin(p, i, resolved, spawnOk) ==
  IF ~resolved THEN [p EXCEPT !.sessions[i] = PoolCall("done", 0, "threw")]
  ELSE LET k == construct(p, i)
       IN  IF ~spawnOk
           THEN [k.p EXCEPT !.sessions[i] = PoolCall("done", k.client, "threw")]
           ELSE [poolStart(k.p, k.client) EXCEPT
                   !.sessions[i] = PoolCall("initialize", k.client, "running")]

(***************************************************************************)
(* The session orchestrator, withLspClient (part_003:29-49), as a record   *)
(*   pc     "idle", "initialize", "fn", "stop" or "done"                   *)
(*   call   the index in calls of the method call it awaits                *)
(*   fnOut  how the closure ended; out: how withLspClient ended            *)
(***************************************************************************)
Session(pc, call, fnOut, out) == [pc |-> pc, call |-> call, fnOut |-> fnOut, out |-> out]

(***************************************************************************)
(* The tools (tools.ts:14-172).  What execute gives its caller is a record *)
(*   out      "running", "returned" or "threw"                             *)
(*   kind     of the value returned: "text" (the formatted result) or      *)
(*            "error" (the string "Error: " followed by the message)       *)
(*   message  the message of the error caught                              *)
(***************************************************************************)
ToolResult(out, kind, message) == [out |-> out, kind |-> kind, message |-> message]

\* the messages of the errors a session ends with
NO_SERVER == "No LSP server configured for extension"
REQUEST_TIMEOUT == "LSP request timeout"
SERVER_ERROR == "msg.error.message"
SPAWN_ERROR == "spawn failed"
READ_ERROR == "readFileSync failed"
FORMAT_ERROR == "TypeError in the formatter"

\* the error a call that threw within a session has thrown: spawn's, the rejection
\* of its request, or readFileSync's (send does not throw there: the session's client
\* has its subprocess until stop)
ErrorOf(c, promises) ==
  IF c.op = "start" THEN SPAWN_ERROR
  ELSE IF c.req # 0
  THEN (IF promises[c.req] = "timeout" THEN REQUEST_TIMEOUT ELSE SERVER_ERROR)
  ELSE READ_ERROR

\* part_003:34-48: the error withLspClient threw: of the resolution, of start, of
\* initialize, or of the closure (the call before stop)
SessionError(cs, promises) ==
  IF cs = <<>> THEN NO_SERVER
  ELSE IF cs[Len(cs)].op = "stop" THEN ErrorOf(cs[Len(cs) - 1], promises)
  ELSE ErrorOf(cs[Len(cs)], promises)

\* a tool whose execute has no try/catch: what withLspClient or the formatter throws
\* reaches the caller
executeWithoutCatch(sessionOut, message, formatted) ==
  IF sessionOut = "threw" THEN ToolResult("threw", "", message)
  ELSE IF ~formatted THEN ToolResult("threw", "", FORMAT_ERROR)
  ELSE ToolResult("returned", "text", "")

\* tools.ts:22-31 (and 42-61, 73-87, 96-111, 122-135, 148-171): execute after the
\* await of withLspClient: the result is formatted, and whatever was thrown, by
\* withLspClient or by the formatter, is caught and returned as "Error: <message>".
\* The server's result is of the type the closure casts it to.
execute(sessionOut, message, formatted) ==
  IF sessionOut = "threw" THEN ToolResult("returned", "error", message)
  ELSE IF ~formatted THEN ToolResult("returned", "error", FORMAT_ERROR)
  ELSE ToolResult("returned", "text", "")

(***************************************************************************)
(* Initial state: a client just constructed (client.ts:8-12)               *)
(***************************************************************************)
NewWorld ==
  [proc |-> NoProc, pending |-> {}, requestId |-> 0, openedFiles |-> {},
   alive |-> {}, spawned |-> 0, io |-> <<>>, promise |-> <<>>, timers |-> {}]

\* no session auto-export hook, no testing-agent trigger hook, no migration in the
\* specifications of the language-server client
NoExporter == <<>>
NoTrigger == <<>>
NoMigration == <<>>

\* a process that has not called the registry yet
NewRegistry(file) == Registry(file, FALSE, <<>>, 0)

\* the configuration files of the sessions: none, one that disables a built-in
\* server, one that defines a server
SessionFiles ==
  {File("absent", <<>>),
   File("json", <<Entry("typescript", TRUE, FALSE, <<>>, FALSE, {})>>),
   File("json", <<Entry("custom", FALSE, TRUE, <<"custom-ls">>, TRUE, {".py"})>>)}

\* the contents of PATH in the sessions: no command installed, or all of them
SessionPaths == {{}, Commands}

Init ==
  /\ proc = NoProc
  /\ buffer = <<>>
  /\ pending = {}
  /\ requestId = 0
  /\ openedFiles = {}
  /\ alive = {}
  /\ spawned = 0
  /\ io = <<>>
  /\ promise = <<>>
  /\ timers = {}
  /\ calls = <<>>
  /\ driver \in {"session", "direct"}
  /\ session = Session("idle", 0, "", "running")
  /\ toolOut = ToolResult("running", "", "")
  /\ registry \in {NewRegistry(f) : f \in IF driver = "session" THEN SessionFiles
                                                              ELSE {File("absent", <<>>)}}
  /\ lookup = Lookup(FALSE, "", {}, NoServer)
  /\ listing = NoListing
  /\ exporter = NoExporter
  /\ trigger = NoTrigger
  /\ migration = NoMigration
  /\ frames = <<>>
  /\ stream = <<>>
  /\ dispatched = <<>>
  /\ walk = NoWalk
  /\ pool = NoPool

framingVars == <<buffer, frames, stream, dispatched>>

registryVars == <<registry, lookup, listing>>

hookVars == <<exporter, trigger, migration>>

(***************************************************************************)
(* Actions                                                                 *)
(***************************************************************************)
\* a caller invokes a public method of the client directly
DirectCall ==
  /\ driver = "direct"
  /\ Len(calls) < MaxCalls
  /\ \E op \in DirectOps, file \in Files, ok \in BOOLEAN :
       \E r \in {Invoke(World, op, file, ok)} :
           /\ r.w.requestId <= MaxReq
           /\ r.w.spawned <= MaxProcs
           /\ SetWorld(r.w)
           /\ calls' = Append(calls, r.call)
  /\ UNCHANGED <<driver, session, toolOut, registryVars, framingVars, walk, pool, hookVars>>

\* the suspended call i goes on: its request was settled or its delay elapsed
Resume(i) ==
  /\ CanResume(World, calls[i])
  /\ \E r \in {Continue(World, calls[i])} :
         /\ r.w.requestId <= MaxReq
         /\ SetWorld(r.w)
         /\ calls' = [calls EXCEPT ![i] = r.call]
  /\ UNCHANGED <<driver, session, toolOut, registryVars, framingVars, walk, pool, hookVars>>

\* the 30 s timer of request id fires (client.ts:127-132); the timers all run for
\* the same time, so they fire in the order they were armed
Timeout(id) ==
  /\ id \in timers
  /\ \A j \in timers : id <= j
  /\ \E w \in {timeout(World, id)} : SetWorld(w)
  /\ UNCHANGED <<calls, driver, session, toolOut, registryVars, framingVars, walk, pool,
            hookVars>>

\* the reader hands processBuffer one complete frame with payload msg
\* (client.ts:37-47, 95-113); a frame that changes nothing is a stuttering step
Deliver(msg) ==
  /\ spawned > 0
  /\ UNCHANGED <<calls, driver, session, toolOut, registryVars, framingVars, walk, pool,
            hookVars>>
  /\ \E w \in {Dispatch(World, msg)} : w # World /\ SetWorld(w)

\* part_003:29-42: withLspClient resolves the server, constructs the client, starts
\* it and calls initialize
SessionBegin ==
  /\ driver = "session"
  /\ session.pc = "idle"
  /\ \E ext \in Exts, path \in SessionPaths, spawnOk \in BOOLEAN :
       \E reg \in {loadForCall(registry)} :
       \E server \in {findServerForExtension(reg.config, path, ext)} :
         /\ registry' = reg
         /\ lookup' = Lookup(TRUE, ext, path, server)
         /\ IF server = NoServer
            THEN /\ session' = Session("done", 0, "", "threw")
                 /\ UNCHANGED <<proc, pending, requestId, openedFiles, alive, spawned, io,
                                promise, timers, calls>>
            ELSE \E s \in {start(World, spawnOk)} : \E i \in {initialize(s.w)} :
                     IF s.call.out = "threw"
                     THEN /\ session' = Session("done", 0, "", "threw")
                          /\ calls' = Append(calls, s.call)
                          /\ SetWorld(s.w)
                     ELSE /\ session' = Session("initialize", Len(calls) + 2, "", "running")
                          /\ calls' = calls \o <<s.call, i.call>>
                          /\ SetWorld(i.w)
  /\ UNCHANGED <<driver, toolOut, listing, framingVars, walk, pool, hookVars>>

\* a withLspClient that calls initialize without awaiting it: the closure runs while
\* the initialize request is outstanding
SessionWithoutAwait ==
  /\ session.pc = "initialize"
  /\ \E op \in FnOps, file \in Files, readOk \in BOOLEAN :
       \E r \in {operation(World, op, file, readOk)} :
           /\ session' = Session("fn", Len(calls) + 1, "", "running")
           /\ calls' = Append(calls, r.call)
           /\ SetWorld(r.w)
  /\ UNCHANGED <<driver, toolOut, registryVars, framingVars, walk, pool, hookVars>>

\* part_003:42-45: initialize is awaited outside the try; when it returns, the
\* closure runs one operation of the client
SessionAfterInitialize ==
  /\ session.pc = "initialize"
  /\ calls[session.call].out # "running"
  /\ IF calls[session.call].out = "threw"
     THEN /\ session' = Session("done", 0, "", "threw")
          /\ UNCHANGED <<proc, pending, requestId, openedFiles, alive, spawned, io,
                         promise, timers, calls>>
     ELSE \E op \in FnOps, file \in Files, readOk \in BOOLEAN :
            \E r \in {operation(World, op, file, readOk)} :
                /\ session' = Session("fn", Len(calls) + 1, "", "running")
                /\ calls' = Append(calls, r.call)
                /\ SetWorld(r.w)
  /\ UNCHANGED <<driver, toolOut, registryVars, framingVars, walk, pool, hookVars>>

\* part_003:46-47: finally: stop is called when the closure has returned or thrown
SessionAfterFn ==
  /\ session.pc = "fn"
  /\ calls[session.call].out # "running"
  /\ \E r \in {stop(World)} :
         /\ session' = Session("stop", Len(calls) + 1, calls[session.call].out, "running")
         /\ calls' = Append(calls, r.call)
         /\ SetWorld(r.w)
  /\ UNCHANGED <<driver, toolOut, registryVars, framingVars, walk, pool, hookVars>>

\* part_003:45-48: withLspClient ends as the closure did, once stop has returned
SessionAfterStop ==
  /\ session.pc = "stop"
  /\ calls[session.call].out # "running"
  /\ session' = Session("done", 0, session.fnOut, session.fnOut)
  /\ UNCHANGED <<proc, pending, requestId, openedFiles, alive, spawned, io, promise,
                 timers, calls, driver, toolOut, registryVars, framingVars, walk, pool,
                 hookVars>>

\* tools.ts:24-30: withLspClient has ended and execute goes on to its return
ExecuteReturns ==
  /\ driver = "session"
  /\ session.pc = "done"
  /\ toolOut.out = "running"
  /\ \E formatted \in BOOLEAN :
       toolOut' = execute(session.out, SessionError(calls, promise), formatted)
  /\ UNCHANGED <<proc, pending, requestId, openedFiles, alive, spawned, io, promise,
                 timers, calls, driver, session, registryVars, framingVars, walk, pool,
                 hookVars>>

Next ==
  \/ DirectCall
  \/ \E i \in 1 .. Len(calls) : Resume(i)
  \/ \E id \in timers : Timeout(id)
  \/ \E msg \in Messages : Deliver(msg)
  \/ SessionBegin
  \/ SessionAfterInitialize
  \/ SessionAfterFn
  \/ SessionAfterStop
  \/ ExecuteReturns

Spec == Init /\ [][Next]_vars

(***************************************************************************)
(* The framing specification: the server writes whole frames, with either  *)
(* header terminator, and the reader hands the client the bytes in chunks  *)
(* of any size.                                                            *)
(***************************************************************************)
\* the header terminators a frame may use
Separators == {CRLF_CRLF, LF_LF}

\* the payloads the server sends in this specification
Payloads == {ResponseBytes(1), ResponseBytes(2), EmptyObjectBytes, BadBytes}

\* a frame: its header terminator and its payload
FrameKinds == [sep : Separators, payload : Payloads]

\* the bytes of frame f: "Content-Length: <n>", the terminator, n bytes of payload
FrameBytes(f) == CONTENT_LENGTH \o <<32>> \o Decimal(Len(f.payload)) \o f.sep \o f.payload

\* the bytes of the frames fs, concatenated
RECURSIVE Concat(_)
Concat(fs) == IF fs = <<>> THEN <<>> ELSE FrameBytes(Head(fs)) \o Concat(Tail(fs))

\* the sequences of 1 .. MaxFrames frames
FrameSeqs == UNION {[1 .. n -> FrameKinds] : n \in 1 .. MaxFrames}

\* a started client on which two workspaceSymbols calls await their responses
TwoPending ==
  LET s == start(NewWorld, TRUE)
      a == operation(s.w, "workspaceSymbols", "", TRUE)
      b == operation(a.w, "workspaceSymbols", "", TRUE)
  IN  [w |-> b.w, calls |-> <<s.call, a.call, b.call>>]

FramingInit ==
  /\ proc = TwoPending.w.proc
  /\ pending = TwoPending.w.pending
  /\ requestId = TwoPending.w.requestId
  /\ openedFiles = TwoPending.w.openedFiles
  /\ alive = TwoPending.w.alive
  /\ spawned = TwoPending.w.spawned
  /\ io = TwoPending.w.io
  /\ promise = TwoPending.w.promise
  /\ timers = TwoPending.w.timers
  /\ calls = TwoPending.calls
  /\ driver = "direct"
  /\ session = Session("idle", 0, "", "running")
  /\ toolOut = ToolResult("running", "", "")
  /\ registry = NewRegistry(File("absent", <<>>))
  /\ lookup = Lookup(FALSE, "", {}, NoServer)
  /\ listing = NoListing
  /\ exporter = NoExporter
  /\ trigger = NoTrigger
  /\ migration = NoMigration
  /\ frames \in FrameSeqs
  /\ stream = Concat(frames)
  /\ buffer = <<>>
  /\ dispatched = <<>>
  /\ walk = NoWalk
  /\ pool = NoPool

\* client.ts:40-46: the reader reads a chunk of n bytes, appends it to the buffer
\* and runs processBuffer
Read(n) ==
  /\ n \in 1 .. Len(stream)
  /\ \E r \in {processBuffer(buffer \o SubSeq(stream, 1, n), World, dispatched)} :
         /\ buffer' = r.buffer
         /\ dispatched' = r.dispatched
         /\ SetWorld(r.c)
  /\ stream' = SubSeq(stream, n + 1, Len(stream))
  /\ UNCHANGED <<calls, driver, session, toolOut, registryVars, frames, walk, pool,
            hookVars>>

FramingNext == \E n \in 1 .. Len(stream) : Read(n)

FramingSpec == FramingInit /\ [][FramingNext]_vars

\* the short framing specification: the same reader on frames with the two shortest
\* payloads, an object and a payload that is not JSON
ShortFrameSeqs ==
  UNION {[1 .. n -> [sep : Separators, payload : {EmptyObjectBytes, BadBytes}]] :
           n \in 1 .. MaxShortFrames}

ShortFramingInit ==
  /\ proc = TwoPending.w.proc
  /\ pending = TwoPending.w.pending
  /\ requestId = TwoPending.w.requestId
  /\ openedFiles = TwoPending.w.openedFiles
  /\ alive = TwoPending.w.alive
  /\ spawned = TwoPending.w.spawned
  /\ io = TwoPending.w.io
  /\ promise = TwoPending.w.promise
  /\ timers = TwoPending.w.timers
  /\ calls = TwoPending.calls
  /\ driver = "direct"
  /\ session = Session("idle", 0, "", "running")
  /\ toolOut = ToolResult("running", "", "")
  /\ registry = NewRegistry(File("absent", <<>>))
  /\ lookup = Lookup(FALSE, "", {}, NoServer)
  /\ listing = NoListing
  /\ exporter = NoExporter
  /\ trigger = NoTrigger
  /\ migration = NoMigration
  /\ frames \in ShortFrameSeqs
  /\ stream = Concat(frames)
  /\ buffer = <<>>
  /\ dispatched = <<>>
  /\ walk = NoWalk
  /\ pool = NoPool

ShortFramingSpec == ShortFramingInit /\ [][FramingNext]_vars

(***************************************************************************)
(* The written-frames specification: a started client writes requests,     *)
(* notifications and responses, and the bytes it wrote are handed to its   *)
(* own reader, as if its stdin were connected to its stdout.               *)
(***************************************************************************)
\* a started client
Started == start(NewWorld, TRUE)

WrittenInit ==
  /\ proc = Started.w.proc
  /\ pending = Started.w.pending
  /\ requestId = Started.w.requestId
  /\ openedFiles = Started.w.openedFiles
  /\ alive = Started.w.alive
  /\ spawned = Started.w.spawned
  /\ io = Started.w.io
  /\ promise = Started.w.promise
  /\ timers = Started.w.timers
  /\ calls = <<Started.call>>
  /\ driver = "direct"
  /\ session = Session("idle", 0, "", "running")
  /\ toolOut = ToolResult("running", "", "")
  /\ registry = NewRegistry(File("absent", <<>>))
  /\ lookup = Lookup(FALSE, "", {}, NoServer)
  /\ listing = NoListing
  /\ exporter = NoExporter
  /\ trigger = NoTrigger
  /\ migration = NoMigration
  /\ frames = <<>>
  /\ stream = <<>>
  /\ buffer = <<>>
  /\ dispatched = <<>>
  /\ walk = NoWalk
  /\ pool = NoPool

\* this.proc.stdin.write(...) of message m, by the call that left the client as w
Write(w, m) ==
  /\ Len(frames) < MaxWritten
  /\ SetWorld(w)
  /\ frames' = Append(frames, m)
  /\ stream' = stream \o WrittenFrame(m)
  /\ UNCHANGED <<buffer, dispatched, calls, driver, session, toolOut, registryVars,
                 walk, pool, hookVars>>

\* client.ts:117-134: send, for workspaceSymbols(query) and for stop's shutdown
WriteRequest(method, query) ==
  \E r \in {send(World, method)} :
     /\ r.ok
     /\ Write(r.w, WireMessage("request", method, r.id, "", query))

\* client.ts:136-141: notify
WriteNotification(method) ==
  \E w \in {notify(World, method)} :
     Write(w, WireMessage("notification", method, 0, "", <<>>))

\* client.ts:143-148: respond to the server's request id
WriteResponse(id, result) ==
  \E w \in {respond(World, id, result)} :
     Write(w, WireMessage("response", "", id, result, <<>>))

\* client.ts:40-46: the bytes written reach the reader in one chunk
Loopback ==
  /\ stream # <<>>
  /\ \E r \in {processBuffer(buffer \o stream, World, dispatched)} :
         /\ buffer' = r.buffer
         /\ dispatched' = r.dispatched
         /\ SetWorld(r.c)
  /\ stream' = <<>>
  /\ UNCHANGED <<calls, driver, session, toolOut, registryVars, frames, walk, pool,
            hookVars>>

WrittenNext ==
  \/ \E query \in Queries : WriteRequest("workspace/symbol", query)
  \/ WriteRequest("shutdown", <<>>)
  \/ WriteNotification("exit")
  \/ \E result \in {"[{}]", "null"} : WriteResponse(1, result)
  \/ Loopback

WrittenSpec == WrittenInit /\ [][WrittenNext]_vars

\* the header of written frame f: the bytes before its first CRLFCRLF
HeaderOf(f) == Slice(f, 0, findSequence(f, CRLF_CRLF))

\* C29: every frame the client writes declares the UTF-8 byte length of its JSON text
\* and ends its header with CRLFCRLF, and once the bytes written have been handed to
\* processBuffer, the payloads it cut out decode to the JSON texts written, in order,
\* and the buffer is empty
C29_WrittenFramesRoundTrip ==
  /\ \A i \in 1 .. Len(frames) :
       LET f == WrittenFrame(frames[i])
           payload == Utf8(stringify(frames[i]))
       IN  /\ findSequence(f, CRLF_CRLF) # -1
           /\ HeaderLength(HeaderOf(f)) = Len(payload)
           /\ f = HeaderOf(f) \o CRLF_CRLF \o payload
  /\ stream = <<>> =>
       /\ buffer = <<>>
       /\ Len(dispatched) = Len(frames)
       /\ \A i \in 1 .. Len(frames) : decode(dispatched[i]) = stringify(frames[i])

\* C29's case: a request whose query holds a character of several bytes, then another
\* frame, were written and read back
C29_Witness ==
  /\ Len(frames) = 2
  /\ frames[1].type = "request"
  /\ byteLength(frames[1].query) > Len(frames[1].query)
  /\ stream = <<>>
  /\ Len(dispatched) = 2

\* C1: once all bytes of N concatenated complete frames (any mix of CRLFCRLF and LFLF
\* terminators) are read, processBuffer has dispatched exactly the N payloads, in
\* order, and the buffer is empty
C1_AllFramesDispatched ==
  stream = <<>> =>
    /\ dispatched = [i \in 1 .. Len(frames) |-> frames[i].payload]
    /\ buffer = <<>>

\* C11: a frame whose declared length exceeds the bytes that have arrived is left in
\* the buffer whole, and what is dispatched is always the full payloads of the frames
\* read so far, however the bytes are split across reads: the bytes not yet consumed
\* are exactly the bytes of the frames not yet dispatched
C11_NoPartialExtraction ==
  /\ Len(dispatched) <= Len(frames)
  /\ \A i \in 1 .. Len(dispatched) : i <= Len(frames) => dispatched[i] = frames[i].payload
  /\ Len(dispatched) <= Len(frames)
        => buffer \o stream = Concat(SubSeq(frames, Len(dispatched) + 1, Len(frames)))

\* the bytes of the payloads ps, with the shortest header and terminator a frame can
\* have ("Content-Length:", one digit, LFLF) for each
RECURSIVE FrameSizes(_)
FrameSizes(ps) ==
  IF ps = <<>> THEN 0
  ELSE Len(CONTENT_LENGTH) + 1 + Len(LF_LF) + Len(Head(ps)) + FrameSizes(Tail(ps))

\* the bytes the reader appends in a step
Chunk == SubSeq(stream, 1, Len(stream) - Len(stream'))

\* C28: a run of processBuffer leaves a suffix of the bytes it found, so bytes are
\* removed from the front only, and the bytes it removed are at least those of the
\* payloads it dispatched with a header and a terminator for each, so no byte
\* belongs to two dispatched frames
C28_ConsumedFromFrontOnce ==
  [][/\ Len(buffer') <= Len(buffer) + Len(Chunk)
     /\ buffer' = SubSeq(buffer \o Chunk,
                         Len(buffer) + Len(Chunk) - Len(buffer') + 1, Len(buffer) + Len(Chunk))
     /\ Len(dispatched') >= Len(dispatched)
     /\ SubSeq(dispatched', 1, Len(dispatched)) = dispatched
     /\ FrameSizes(SubSeq(dispatched', Len(dispatched) + 1, Len(dispatched')))
          <= Len(buffer) + Len(Chunk) - Len(buffer')]_vars

\* C28's case: two frames were dispatched, one after the other, and every byte read
\* was removed
C28_Witness ==
  /\ Len(dispatched) >= 2
  /\ buffer = <<>>
  /\ stream = <<>>

\* the frames whose payload is not JSON
BadFrames == {i \in 1 .. Len(frames) : frames[i].payload = BadBytes}

\* C26: a complete frame whose payload is not JSON is consumed and changes nothing:
\* a stream of such frames only leaves the pending table, the promises and the
\* written frames as they were, and once the stream is read every frame that
\* followed such a frame has been handed to the parser, in order, a response among
\* them has settled its request, and the buffer is empty
C26_MalformedFrameDropped ==
  /\ BadFrames = 1 .. Len(frames) =>
       /\ pending = TwoPending.w.pending
       /\ promise = TwoPending.w.promise
       /\ io = TwoPending.w.io
  /\ (stream = <<>> /\ BadFrames # {}) =>
       /\ buffer = <<>>
       /\ Len(dispatched) = Len(frames)
       /\ \A i \in BadFrames : \A j \in i .. Len(frames) :
            /\ dispatched[j] = frames[j].payload
            /\ \A k \in 1 .. 2 : frames[j].payload = ResponseBytes(k) => promise[k] = "resolved"

(***************************************************************************)
(* Scheduling: a timer that is armed fires, a call whose await is over     *)
(* goes on, and withLspClient goes on when the call it awaits has ended.   *)
(***************************************************************************)
FairSpec ==
  /\ Spec
  /\ WF_vars(\E id \in timers : Timeout(id))
  /\ WF_vars(\E i \in 1 .. Len(calls) : Resume(i))
  /\ WF_vars(SessionAfterInitialize)
  /\ WF_vars(SessionAfterFn)
  /\ WF_vars(SessionAfterStop)
  /\ WF_vars(ExecuteReturns)

\* the requests issued so far
Issued == 1 .. Len(promise)

\* the frames of the io log written before position i
WrittenBefore(i, type, method) ==
  \E j \in 1 .. i - 1 : io[j].type = type /\ io[j].method = method

(***************************************************************************)
(* Claims about correlation and timeouts                                   *)
(***************************************************************************)
\* C2: a pending request k is resolved or rejected only by a response frame whose id
\* is k, and a response frame whose id matches no pending entry changes no pending
\* entry, no promise and no waiting call
C2_OnlyMatchingResponse ==
  [][/\ \A k \in Issued :
          (promise[k] = "waiting" /\ promise'[k] \in {"resolved", "rejected"})
            => \E msg \in Responses : msg.id = k /\ Deliver(msg)
     /\ \/ UNCHANGED <<pending, promise, timers, calls>>
        \/ \A msg \in Responses : msg.id \notin pending => ~Deliver(msg)]_vars

\* C2's case: two callers wait concurrently and the response to the later request
\* arrived first
C2_Witness ==
  /\ Len(promise) >= 2
  /\ promise[1] = "waiting" /\ 1 \in pending
  /\ promise[2] \in {"resolved", "rejected"}

\* C3: when the timer of a pending request k fires, its promise fails with the timeout
\* and the entry is removed; from then on no step (a late response with id k least of
\* all) settles the promise otherwise or puts k back into the pending table
C3_TimeoutThenDropped ==
  [][\A k \in Issued :
       /\ (k \in pending /\ k \in timers /\ Timeout(k))
            => (promise'[k] = "timeout" /\ k \notin pending')
       /\ promise[k] = "timeout"
            => (promise'[k] = "timeout" /\ k \notin pending /\ k \notin pending')]_vars

\* C3's case: a request has timed out while its caller was waiting, and the caller
\* has been failed
C3_Witness ==
  \E i \in 1 .. Len(calls) :
    /\ calls[i].out = "threw"
    /\ calls[i].req # 0
    /\ promise[calls[i].req] = "timeout"
    /\ calls[i].req \notin timers \cup pending

\* C4: a request is in the pending table exactly as long as its promise is not
\* settled: the entry is removed by the step that settles the promise, be it the
\* matching response or the timeout, and by no other
C4_RemovedIffSettled ==
  \A k \in Issued : (k \in pending) <=> (promise[k] = "waiting")

\* C5: no request waits beyond its timeout: once the timer of a request has fired,
\* the promise of the request is settled
C5_SettledByTimeout ==
  \A k \in Issued : k \notin timers => promise[k] # "waiting"

(***************************************************************************)
(* The server-request specification: the server also sends requests the    *)
(* client answers, while a session runs or while two direct callers wait   *)
(* concurrently.                                                           *)
(***************************************************************************)
\* the server-initiated requests that get a reply
AnsweredRequests == {m \in ServerRequests : m.method \in AnsweredMethods}

\* the responses the client has written
Answers == {i \in 1 .. Len(io) : io[i].type = "response"}

\* a started client with two concurrent callers: workspaceSymbols awaits its response
\* and hover has opened its file and waits out the delay before it sends
ConcurrentCallers ==
  LET s == start(NewWorld, TRUE)
      a == operation(s.w, "workspaceSymbols", "", TRUE)
      b == operation(a.w, "hover", "/repo/a.ts", TRUE)
  IN  [w |-> b.w, calls |-> <<s.call, a.call, b.call>>]

AnswerInit ==
  /\ buffer = <<>>
  /\ driver \in {"session", "direct"}
  /\ IF driver = "session"
     THEN /\ proc = NoProc
          /\ pending = {}
          /\ requestId = 0
          /\ openedFiles = {}
          /\ alive = {}
          /\ spawned = 0
          /\ io = <<>>
          /\ promise = <<>>
          /\ timers = {}
          /\ calls = <<>>
     ELSE /\ proc = ConcurrentCallers.w.proc
          /\ pending = ConcurrentCallers.w.pending
          /\ requestId = ConcurrentCallers.w.requestId
          /\ openedFiles = ConcurrentCallers.w.openedFiles
          /\ alive = ConcurrentCallers.w.alive
          /\ spawned = ConcurrentCallers.w.spawned
          /\ io = ConcurrentCallers.w.io
          /\ promise = ConcurrentCallers.w.promise
          /\ timers = ConcurrentCallers.w.timers
          /\ calls = ConcurrentCallers.calls
  /\ session = Session("idle", 0, "", "running")
  /\ toolOut = ToolResult("running", "", "")
  /\ registry = NewRegistry(File("absent", <<>>))
  /\ lookup = Lookup(FALSE, "", {}, NoServer)
  /\ listing = NoListing
  /\ exporter = NoExporter
  /\ trigger = NoTrigger
  /\ migration = NoMigration
  /\ frames = <<>>
  /\ stream = <<>>
  /\ dispatched = <<>>
  /\ walk = NoWalk
  /\ pool = NoPool

\* the reader hands processBuffer a server-initiated request the client answers
\* (client.ts:98-101, 150-158)
DeliverRequest(msg) ==
  /\ spawned > 0
  /\ Cardinality(Answers) < MaxAnswers
  /\ UNCHANGED <<calls, driver, session, toolOut, registryVars, framingVars, walk, pool,
            hookVars>>
  /\ \E w \in {Dispatch(World, msg)} : SetWorld(w)

AnswerNext ==
  \/ \E i \in 1 .. Len(calls) : Resume(i)
  \/ \E id \in timers : Timeout(id)
  \/ \E msg \in Messages : Deliver(msg)
  \/ \E msg \in AnsweredRequests : DeliverRequest(msg)
  \/ SessionBegin
  \/ SessionAfterInitialize
  \/ SessionAfterFn
  \/ SessionAfterStop
  \/ ExecuteReturns

AnswerSpec == AnswerInit /\ [][AnswerNext]_vars

\* C23: in every state the client can be in, a frame with an id and a method goes to
\* the handler of server requests and leaves the pending table and every promise as
\* they are, also when its id is the id of a pending request
C23_ServerRequestSettlesNothing ==
  \A msg \in ServerRequests :
    /\ Dispatch(World, msg) = handleServerRequest(World, msg.id, msg.method)
    /\ Dispatch(World, msg).pending = pending
    /\ Dispatch(World, msg).promise = promise

\* C23's case: the client has answered a server request that carried the id of a
\* request of its own which is still pending
C23_Witness ==
  \E i \in 1 .. Len(io) :
    /\ io[i].type = "response"
    /\ io[i].id \in pending
    /\ promise[io[i].id] = "waiting"
    /\ \E j \in 1 .. i - 1 : io[j].type = "request" /\ io[j].id = io[i].id

\* the value the protocol asks for in reply to a server-initiated request
CannedResult(method) == IF method = "workspace/configuration" THEN "[{}]" ELSE "null"

\* C24: in every state in which the client has a subprocess, a server-initiated
\* request with one of the three methods makes it write one response frame, with
\* the server's id and the canned value, and nothing else; a request with another
\* method makes it write nothing; in both cases the dispatch returns
C24_RepliesToKnownMethodsOnly ==
  \A msg \in ServerRequests :
    Dispatch(World, msg).io =
      IF msg.method \in AnsweredMethods /\ proc # NoProc
      THEN Append(io, ResponseEntry(msg.id, CannedResult(msg.method)))
      ELSE io

\* C24's case: the client has written the reply to workspace/configuration, and a
\* request it wrote after that was resolved by a response that arrived later
C24_Witness ==
  \E i, j \in 1 .. Len(io) :
    /\ i < j
    /\ io[i].type = "response" /\ io[i].result = "[{}]"
    /\ io[j].type = "request" /\ promise[io[j].id] = "resolved"

\* the answered server-initiated requests with any id
AnsweredWithAnyId ==
  {Object(TRUE, id, TRUE, m, "absent") : id \in FrameIds, m \in AnsweredMethods}

\* C25: in every state in which the client has a subprocess, answering a
\* server-initiated request writes a response frame with the id the server chose
\* and changes neither the request-id counter nor the pending table, the promises or
\* the timers
C25_ReplyKeepsCounterAndPending ==
  \A msg \in AnsweredWithAnyId :
    /\ Dispatch(World, msg).requestId = requestId
    /\ Dispatch(World, msg).pending = pending
    /\ Dispatch(World, msg).promise = promise
    /\ Dispatch(World, msg).timers = timers
    /\ proc # NoProc =>
         /\ Len(Dispatch(World, msg).io) = Len(io) + 1
         /\ Dispatch(World, msg).io[Len(io) + 1].type = "response"
         /\ Dispatch(World, msg).io[Len(io) + 1].id = msg.id

\* C25's case: the client has written a reply whose id is not the next id of its
\* counter, while it has requests pending
C25_Witness ==
  /\ pending # {}
  /\ \E i \in 1 .. Len(io) : io[i].type = "response" /\ io[i].id # requestId + 1
  /\ \A i \in 1 .. Len(io) : io[i].type = "request" => io[i].id <= requestId

\* C14: the ids of the requests a client writes are strictly increasing in the order
\* they are written, so no two requests carry the same id, whatever timeouts,
\* responses and replies to server-initiated requests come between them
C14_IdsStrictlyIncrease ==
  /\ \A i, j \in 1 .. Len(io) :
       (i < j /\ io[i].type = "request" /\ io[j].type = "request") => io[i].id < io[j].id
  /\ \A i \in 1 .. Len(io) : io[i].type = "request" => io[i].id <= requestId

\* C14's case: a request timed out, the client answered a server-initiated request
\* that carried the id of one of its own, and wrote a further request after that
C14_Witness ==
  /\ \E k \in Issued : promise[k] = "timeout"
  /\ \E i, j \in 1 .. Len(io) :
       /\ i < j
       /\ io[i].type = "response" /\ io[i].id <= requestId
       /\ io[j].type = "request"

(***************************************************************************)
(* The workspace specification: findWorkspaceRoot on any path, in a        *)
(* filesystem of nested directories any of which may hold a marker.        *)
(***************************************************************************)
\* the directory n levels below the root
Nested(n) == [i \in 1 .. n |-> "p"]

\* the filesystems: depth nested directories, a marker (a directory .git or a file
\* build.gradle) in those of the levels marked, and the file a.ts in the deepest
\* directory or not
FilesystemsOf(depth) ==
  {Fs({Nested(n) : n \in 0 .. depth}
        \cup (IF marker = ".git" THEN {join(Nested(n), marker) : n \in marked} ELSE {}),
      (IF marker = ".git" THEN {} ELSE {join(Nested(n), marker) : n \in marked})
        \cup (IF hasFile THEN {join(Nested(depth), "a.ts")} ELSE {})) :
     marked \in SUBSET (0 .. depth), marker \in {".git", "build.gradle"},
     hasFile \in BOOLEAN}

Filesystems == UNION {FilesystemsOf(depth) : depth \in 0 .. MaxDepth}

\* the paths looked up: a directory, a file in it, or the parent written with ".."
FilePaths ==
  {FilePath(absolute, segments) :
     absolute \in BOOLEAN,
     segments \in {Nested(n) : n \in 0 .. MaxDepth}
                   \cup {join(Nested(n), "a.ts") : n \in 0 .. MaxDepth - 1}
                   \cup {join(Nested(n), "..") : n \in 0 .. MaxDepth - 1}}

WorkspaceInit ==
  /\ proc = NoProc
  /\ buffer = <<>>
  /\ pending = {}
  /\ requestId = 0
  /\ openedFiles = {}
  /\ alive = {}
  /\ spawned = 0
  /\ io = <<>>
  /\ promise = <<>>
  /\ timers = {}
  /\ calls = <<>>
  /\ driver = "direct"
  /\ session = Session("idle", 0, "", "running")
  /\ toolOut = ToolResult("running", "", "")
  /\ registry = NewRegistry(File("absent", <<>>))
  /\ lookup = Lookup(FALSE, "", {}, NoServer)
  /\ listing = NoListing
  /\ exporter = NoExporter
  /\ trigger = NoTrigger
  /\ migration = NoMigration
  /\ frames = <<>>
  /\ stream = <<>>
  /\ dispatched = <<>>
  /\ walk \in {Walk(fs, filePath, "idle", <<>>, <<>>) :
                 fs \in Filesystems, filePath \in FilePaths}
  /\ pool = NoPool
  /\ (~walk.filePath.absolute) => isDirectory(walk.fs, CWD)

workspaceOthers ==
  <<proc, pending, requestId, openedFiles, alive, spawned, io, promise, timers, calls,
    driver, session, toolOut, registryVars, framingVars, pool, hookVars>>

\* part_003:8-13: findWorkspaceRoot(filePath) up to the loop
FindWorkspaceRoot ==
  /\ walk.pc = "idle"
  /\ walk' = [walk EXCEPT !.pc = "loop", !.dir = StartDir(walk.fs, walk.filePath)]
  /\ UNCHANGED workspaceOthers

\* part_003:17-26: the loop
Loop ==
  /\ walk.pc = "loop"
  /\ walk' = WalkUp(walk)
  /\ UNCHANGED workspaceOthers

WorkspaceNext == FindWorkspaceRoot \/ Loop

WorkspaceSpec ==
  WorkspaceInit /\ [][WorkspaceNext]_vars /\ WF_vars(FindWorkspaceRoot) /\ WF_vars(Loop)

(***************************************************************************)
(* The concurrent specification: MaxSessions calls of withLspClient run    *)
(* interleaved at their awaits.                                            *)
(***************************************************************************)
ConcurrentInit ==
  /\ proc = NoProc
  /\ buffer = <<>>
  /\ pending = {}
  /\ requestId = 0
  /\ openedFiles = {}
  /\ alive = {}
  /\ spawned = 0
  /\ io = <<>>
  /\ promise = <<>>
  /\ timers = {}
  /\ calls = <<>>
  /\ driver = "direct"
  /\ session = Session("idle", 0, "", "running")
  /\ toolOut = ToolResult("running", "", "")
  /\ registry = NewRegistry(File("absent", <<>>))
  /\ lookup = Lookup(FALSE, "", {}, NoServer)
  /\ listing = NoListing
  /\ exporter = NoExporter
  /\ trigger = NoTrigger
  /\ migration = NoMigration
  /\ frames = <<>>
  /\ stream = <<>>
  /\ dispatched = <<>>
  /\ walk = NoWalk
  /\ pool = NoPool

concurrentOthers ==
  <<proc, pending, requestId, openedFiles, alive, spawned, io, promise, timers, calls,
    driver, session, toolOut, registryVars, framingVars, walk, hookVars>>

\* part_003:29-41: call i resolves its server, constructs its client and starts it
CallBegin(i) ==
  /\ pool.sessions[i].pc = "idle"
  /\ \E resolved \in BOOLEAN, spawnOk \in BOOLEAN :
       pool' = withLspClientBegin(pool, i, resolved, spawnOk)
  /\ UNCHANGED concurrentOthers

\* part_003:41-45: start has returned and initialize returns or throws
CallInitialized(i) ==
  /\ pool.sessions[i].pc = "initialize"
  /\ \E ok \in BOOLEAN :
       pool' = [pool EXCEPT !.sessions[i] = IF ok THEN [@ EXCEPT !.pc = "fn"]
                                            ELSE [@ EXCEPT !.pc = "done", !.out = "threw"]]
  /\ UNCHANGED concurrentOthers

\* part_003:45-47: the closure returns or throws and stop is called
CallRan(i) ==
  /\ pool.sessions[i].pc = "fn"
  /\ \E out \in {"returned", "threw"} :
       pool' = [pool EXCEPT !.sessions[i] = [@ EXCEPT !.pc = "stop", !.out = out]]
  /\ UNCHANGED concurrentOthers

\* part_003:47-48: stop returns
CallStopped(i) ==
  /\ pool.sessions[i].pc = "stop"
  /\ pool' = [poolStop(pool, pool.sessions[i].client) EXCEPT !.sessions[i].pc = "done"]
  /\ UNCHANGED concurrentOthers

ConcurrentNext ==
  \E i \in 1 .. MaxSessions :
    CallBegin(i) \/ CallInitialized(i) \/ CallRan(i) \/ CallStopped(i)

ConcurrentSpec == ConcurrentInit /\ [][ConcurrentNext]_vars

\* the clients call i constructed
ClientsOf(i) == {c \in 1 .. Len(pool.clients) : pool.clients[c].owner = i}

\* the subprocesses client c spawned
SubprocessesOf(c) == {q \in 1 .. Len(pool.procs) : pool.procs[q].client = c}

\* C20: a withLspClient call that resolved a server has constructed exactly one
\* client, which is the one it works with and which no other call works with, and
\* that client has spawned exactly one subprocess once its start has succeeded, and
\* never a second one
C20_OneClientOneSubprocessPerCall ==
  \A i \in 1 .. MaxSessions :
    IF pool.sessions[i].client = 0 THEN ClientsOf(i) = {}
    ELSE /\ ClientsOf(i) = {pool.sessions[i].client}
         /\ \A j \in 1 .. MaxSessions : j # i => pool.sessions[j].client # pool.sessions[i].client
         /\ Cardinality(SubprocessesOf(pool.sessions[i].client)) <= 1
         /\ (pool.sessions[i].pc # "done" \/ pool.sessions[i].out = "returned")
              => Cardinality(SubprocessesOf(pool.sessions[i].client)) = 1

\* C20's case: two calls run at the same time, each with a running subprocess
C20_Witness ==
  \E i, j \in 1 .. MaxSessions :
    /\ i # j
    /\ pool.sessions[i].pc \in {"initialize", "fn", "stop"}
    /\ pool.sessions[j].pc \in {"initialize", "fn", "stop"}
    /\ pool.procs[pool.clients[pool.sessions[i].client].proc].running
    /\ pool.procs[pool.clients[pool.sessions[j].client].proc].running

(***************************************************************************)
(* The registry specification: a process with any configuration file       *)
(* looks up servers, for any extension and any contents of PATH.           *)
(***************************************************************************)
RegistryInit ==
  /\ proc = NoProc
  /\ buffer = <<>>
  /\ pending = {}
  /\ requestId = 0
  /\ openedFiles = {}
  /\ alive = {}
  /\ spawned = 0
  /\ io = <<>>
  /\ promise = <<>>
  /\ timers = {}
  /\ calls = <<>>
  /\ driver = "direct"
  /\ session = Session("idle", 0, "", "running")
  /\ toolOut = ToolResult("running", "", "")
  /\ registry \in {NewRegistry(f) : f \in ConfigFiles}
  /\ lookup = Lookup(FALSE, "", {}, NoServer)
  /\ listing = NoListing
  /\ exporter = NoExporter
  /\ trigger = NoTrigger
  /\ migration = NoMigration
  /\ frames = <<>>
  /\ stream = <<>>
  /\ dispatched = <<>>
  /\ walk = NoWalk
  /\ pool = NoPool

\* tools.ts:275-299: a call findServerForExtension(ext) with PATH holding path
FindServer(ext, path) ==
  /\ \E reg \in {loadForCall(registry)} :
       /\ registry' = reg
       /\ lookup' = Lookup(TRUE, ext, path, findServerForExtension(reg.config, path, ext))
  /\ UNCHANGED <<proc, pending, requestId, openedFiles, alive, spawned, io, promise,
                 timers, calls, driver, session, toolOut, listing, framingVars, walk,
                 pool, hookVars>>

\* tools.ts:321-361: a call getAllServers() with PATH holding path
ListServers(path) ==
  /\ \E reg \in {loadForCall(registry)} :
       /\ registry' = reg
       /\ listing' = getAllServers(reg.config, path)
  /\ UNCHANGED <<proc, pending, requestId, openedFiles, alive, spawned, io, promise,
                 timers, calls, driver, session, toolOut, lookup, framingVars, walk,
                 pool, hookVars>>

RegistryNext == \E ext \in Exts, path \in SUBSET Commands : FindServer(ext, path)

RegistrySpec == RegistryInit /\ [][RegistryNext]_vars

\* the listing specification: the same configurations, and calls of getAllServers
ListingNext == \E path \in SUBSET Commands : ListServers(path)

ListingSpec == RegistryInit /\ [][ListingNext]_vars

(***************************************************************************)
(* The cache specification: calls of the registry while the configuration  *)
(* file changes on disk.                                                   *)
(***************************************************************************)
\* the configuration file at one time: those of the sessions, one that is not
\* JSON, one that holds a falsy JSON value
CacheFiles == SessionFiles \cup {File("unparsable", <<>>), File("falsy", <<>>)}

CacheInit ==
  /\ proc = NoProc
  /\ buffer = <<>>
  /\ pending = {}
  /\ requestId = 0
  /\ openedFiles = {}
  /\ alive = {}
  /\ spawned = 0
  /\ io = <<>>
  /\ promise = <<>>
  /\ timers = {}
  /\ calls = <<>>
  /\ driver = "direct"
  /\ session = Session("idle", 0, "", "running")
  /\ toolOut = ToolResult("running", "", "")
  /\ registry \in {NewRegistry(f) : f \in CacheFiles}
  /\ lookup = Lookup(FALSE, "", {}, NoServer)
  /\ listing = NoListing
  /\ exporter = NoExporter
  /\ trigger = NoTrigger
  /\ migration = NoMigration
  /\ frames = <<>>
  /\ stream = <<>>
  /\ dispatched = <<>>
  /\ walk = NoWalk
  /\ pool = NoPool

\* the user, or another program, replaces the configuration file
ChangeFile(f) ==
  /\ f # registry.file
  /\ registry' = [registry EXCEPT !.file = f]
  /\ UNCHANGED <<proc, pending, requestId, openedFiles, alive, spawned, io, promise,
                 timers, calls, driver, session, toolOut, lookup, listing, framingVars,
                 walk, pool, hookVars>>

\* a call of findServerForExtension, while the file was read fewer than MaxReads times
CacheFind(ext, path) == registry.reads < MaxReads /\ FindServer(ext, path)

\* a call of getAllServers, likewise
CacheList(path) == registry.reads < MaxReads /\ ListServers(path)

CacheNext ==
  \/ \E f \in CacheFiles : ChangeFile(f)
  \/ \E ext \in Exts, path \in SessionPaths : CacheFind(ext, path)
  \/ \E path \in SessionPaths : CacheList(path)

CacheSpec == CacheInit /\ [][CacheNext]_vars

\* C31: once a registry call has been made, the configuration file is never read
\* again and the configuration in use stays the one of that call, whatever becomes
\* of the file
C31_ConfigurationReadOnce ==
  [][lookup.called \/ listing.called =>
       /\ registry'.reads = registry.reads
       /\ registry'.config = registry.config]_vars

\* the ids the registry knows: of the user-defined servers, of the entries marked
\* disabled, of the built-in servers
KnownIds(lsp) ==
  IdsOf(getUserLspServers(lsp)) \cup getDisabledServers(lsp) \cup IdsOf(BUILTIN_SERVERS)

\* C30: getAllServers returns an array that holds every known server id (user-defined,
\* disabled, built-in) exactly once, with disabled = true exactly for the ids the
\* configuration marks disabled; every disabled id is in the array, and no call of
\* findServerForExtension returns it
C30_EveryKnownServerListedOnce ==
  listing.called =>
    /\ ~listing.threw
    /\ IdsOf(listing.servers) = KnownIds(registry.config)
    /\ \A i, j \in 1 .. Len(listing.servers) :
         listing.servers[i].id = listing.servers[j].id => i = j
    /\ \A i \in 1 .. Len(listing.servers) :
         listing.servers[i].disabled
           <=> listing.servers[i].id \in getDisabledServers(registry.config)
    /\ \A id \in getDisabledServers(registry.config) :
         /\ id \in IdsOf(listing.servers)
         /\ \A ext \in Exts, path \in SUBSET Commands :
              findServerForExtension(registry.config, path, ext).id # id

\* the entry makes a user-defined server that lists ext and is installed
Qualifies(entry, path, ext) ==
  /\ IsUserServer(entry)
  /\ ext \in entry.extensions
  /\ entry.command # <<>>
  /\ entry.command[1] \in path

\* the built-in server b may be returned: its id is neither disabled nor the id of a
\* user-defined server, it lists ext and is installed
BuiltinQualifies(b, lsp, path, ext) ==
  /\ \A i \in 1 .. Len(lsp) : lsp[i].id = b.id => (~lsp[i].disabled /\ ~IsUserServer(lsp[i]))
  /\ ext \in b.extensions
  /\ b.command[1] \in path

\* some server, user-defined or built-in, serves ext
HasServer(lsp, path, ext) ==
  \/ \E i \in 1 .. Len(lsp) : Qualifies(lsp[i], path, ext)
  \/ \E i \in 1 .. Len(BUILTIN_SERVERS) : BuiltinQualifies(BUILTIN_SERVERS[i], lsp, path, ext)

(***************************************************************************)
(* Claims about the registry                                               *)
(***************************************************************************)
\* the positions, in the order of the configuration file, of the entries that make
\* a user-defined server that lists ext and is installed
Qualifying(lsp, path, ext) == {i \in 1 .. Len(lsp) : Qualifies(lsp[i], path, ext)}

\* the first of them
FirstQualifying(lsp, path, ext) ==
  CHOOSE i \in Qualifying(lsp, path, ext) : \A j \in Qualifying(lsp, path, ext) : i <= j

\* C17: findServerForExtension returns the first user-defined server, in the order
\* of the configuration, that lists the extension and is installed; it returns a
\* built-in server only when no user-defined server qualifies
C17_FirstUserServerInConfigurationOrder ==
  lookup.called =>
    IF Qualifying(registry.config, lookup.path, lookup.ext) # {}
    THEN lookup.server =
           ServerOf(registry.config[FirstQualifying(registry.config, lookup.path, lookup.ext)])
    ELSE \/ lookup.server = NoServer
         \/ \E i \in 1 .. Len(BUILTIN_SERVERS) : lookup.server = BUILTIN_SERVERS[i]

\* the server was made from an entry of the configuration
IsUserDefined(server, lsp) ==
  \E i \in 1 .. Len(lsp) : IsUserServer(lsp[i]) /\ ServerOf(lsp[i]) = server

\* C18: the server findServerForExtension returns is installed, lists the extension
\* and is not disabled; a built-in server is returned only if no entry of the
\* configuration with its id is disabled or makes a user-defined server, whether or
\* not that user-defined server is installed or handles the extension
C18_ReturnedServerIsUsable ==
  (lookup.called /\ lookup.server # NoServer) =>
    /\ lookup.server.command # <<>>
    /\ lookup.server.command[1] \in lookup.path
    /\ lookup.ext \in lookup.server.extensions
    /\ \A i \in 1 .. Len(registry.config) :
         registry.config[i].id = lookup.server.id => ~registry.config[i].disabled
    /\ ~IsUserDefined(lookup.server, registry.config) =>
         /\ \E b \in 1 .. Len(BUILTIN_SERVERS) : lookup.server = BUILTIN_SERVERS[b]
         /\ \A i \in 1 .. Len(registry.config) :
              registry.config[i].id = lookup.server.id => ~IsUserServer(registry.config[i])

\* C18's case: the second built-in server is returned although the first one is
\* installed and handles the extension, because a user-defined server that is not
\* installed or does not handle the extension has the first one's id
C18_Witness ==
  /\ lookup.called
  /\ lookup.server = BUILTIN_SERVERS[2]
  /\ lookup.ext \in BUILTIN_SERVERS[1].extensions
  /\ BUILTIN_SERVERS[1].command[1] \in lookup.path
  /\ \E i \in 1 .. Len(registry.config) :
       /\ registry.config[i].id = BUILTIN_SERVERS[1].id
       /\ IsUserServer(registry.config[i])
       /\ ~Qualifies(registry.config[i], lookup.path, lookup.ext)

(***************************************************************************)
(* Claims about the workspace resolver                                     *)
(***************************************************************************)
\* the levels of the start directory and of its ancestors, the root left out, at
\* which the directory holds a marker
MarkedLevels(fs, from) == {n \in 1 .. Len(from) : HasMarker(fs, SubSeq(from, 1, n))}

\* the directory the walk should return: the deepest of them, or the parent of the
\* resolved path when there is none
ExpectedRoot(fs, filePath) ==
  LET from == IF isDirectory(fs, resolve(filePath)) THEN resolve(filePath)
              ELSE dirname(resolve(filePath))
      levels == MarkedLevels(fs, from)
  IN  IF levels # {}
      THEN SubSeq(from, 1, CHOOSE n \in levels : \A m \in levels : m <= n)
      ELSE dirname(resolve(filePath))

\* C19: findWorkspaceRoot returns for every path, and what it returns is the first
\* directory, walking up from the path (from its parent when the path is not a
\* directory) to the root, "/" itself not examined, that holds a marker, or the
\* parent of the resolved path when the walk reaches the root without finding one
C19_RootFoundAndWalkEnds ==
  /\ [](walk.pc = "done" => walk.out = ExpectedRoot(walk.fs, walk.filePath))
  /\ (walk.pc = "loop" ~> walk.pc = "done")

\* C19's case: the walk passed a directory without a marker and returned an ancestor
\* that holds one
C19_Witness ==
  /\ walk.pc = "done"
  /\ HasMarker(walk.fs, walk.out)
  /\ Len(walk.out) < Len(StartDir(walk.fs, walk.filePath))

(***************************************************************************)
(* Claims about the tools                                                  *)
(***************************************************************************)
\* C12: a tool's execute never throws: however the session ended (no server, spawn
\* failure, request timeout, error response, unreadable file, success) what it gives
\* its caller is a string: the formatted result, or the text of the error with the
\* message of what the session threw
C12_ExecuteReturnsText ==
  /\ toolOut.out # "threw"
  /\ toolOut.out = "returned" =>
       /\ toolOut.kind \in {"text", "error"}
       /\ session.out = "threw" =>
            (toolOut.kind = "error" /\ toolOut.message = SessionError(calls, promise))

\* C12's case: a session whose request timed out, and the tool has returned the
\* error's text
C12_Witness ==
  /\ toolOut.out = "returned"
  /\ toolOut.kind = "error"
  /\ toolOut.message = REQUEST_TIMEOUT

\* C13: when no installed, enabled server serves the extension of the file,
\* withLspClient throws the resolution error without a call of the client and without
\* a subprocess, and the tool returns that error as text
C13_NoServerNoSubprocess ==
  (/\ driver = "session"
   /\ lookup.called
   /\ ~HasServer(registry.config, lookup.path, lookup.ext))
    => /\ session.pc = "done"
       /\ session.out = "threw"
       /\ SessionError(calls, promise) = NO_SERVER
       /\ calls = <<>> /\ io = <<>>
       /\ spawned = 0 /\ alive = {} /\ proc = NoProc
       /\ toolOut.out # "threw"
       /\ toolOut.out = "returned" => (toolOut.kind = "error" /\ toolOut.message = NO_SERVER)

\* C13's case: the built-in server of the extension is disabled and the other one is
\* not installed, and the tool has returned the error
C13_Witness ==
  /\ lookup.called
  /\ lookup.ext = ".ts"
  /\ registry.config # <<>>
  /\ ~HasServer(registry.config, lookup.path, lookup.ext)
  /\ toolOut.out = "returned"

(***************************************************************************)
(* Claims about the lifecycle                                              *)
(***************************************************************************)
\* the textDocument/didOpen notifications written for the file of the model
DidOpens == {i \in 1 .. Len(io) : io[i].method = "textDocument/didOpen"}

\* C16: a client writes textDocument/didOpen at most once for a file, however many
\* operations touch it, one after the other or concurrently
C16_DidOpenAtMostOnce == Cardinality(DidOpens) <= 1

\* C16's case: an operation opened the file and waits out the delay, a second
\* operation on the same file started meanwhile and has already sent its request
C16_Witness ==
  /\ Cardinality(DidOpens) = 1
  /\ \E i, j \in 1 .. Len(calls) :
       /\ i < j
       /\ calls[i].op \in PositionOps /\ calls[j].op \in PositionOps
       /\ calls[i].file = calls[j].file
       /\ calls[i].pc = "open_delay"
       /\ calls[j].req # 0

\* the request methods of the operations that open their file first
PositionMethods == {MethodOf(op) : op \in PositionOps}

\* C21: whenever the request of a position-based operation is written, the didOpen
\* notification for its file has been written before and no call is still waiting
\* out the settle delay that follows it
C21_RequestAfterDidOpenAndDelay ==
  [][\A k \in Len(io) + 1 .. Len(io') :
       (io'[k].type = "request" /\ io'[k].method \in PositionMethods) =>
         /\ \E d \in 1 .. k - 1 : io'[d].method = "textDocument/didOpen"
         /\ \A i \in 1 .. Len(calls') : calls'[i].pc # "open_delay"]_vars

\* the places in the written frames of the notification method
NotificationsOf(method) ==
  {k \in 1 .. Len(io) : io[k].type = "notification" /\ io[k].method = method}

\* the initialize calls that have gone on after their request was resolved
InitializeSucceeded ==
  {i \in 1 .. Len(calls) :
     /\ calls[i].op = "initialize" /\ calls[i].req # 0
     /\ promise[calls[i].req] = "resolved"
     /\ calls[i].pc \in {"settle_delay", "done"}}

\* C27: the initialized notification is written only after an initialize request
\* was resolved, the workspace/didChangeConfiguration notification directly after it
\* and nowhere else, and at most once for each initialize call that went on after a
\* result; an initialize call whose request was rejected or timed out writes
\* neither and never returns normally
C27_NotificationsAfterInitializeResponse ==
  /\ \A k \in NotificationsOf("initialized") :
       /\ k < Len(io) /\ k + 1 \in NotificationsOf("workspace/didChangeConfiguration")
       /\ \E j \in 1 .. k - 1 :
            /\ io[j].type = "request" /\ io[j].method = "initialize"
            /\ promise[io[j].id] = "resolved"
  /\ \A k \in NotificationsOf("workspace/didChangeConfiguration") :
       k > 1 /\ k - 1 \in NotificationsOf("initialized")
  /\ Cardinality(NotificationsOf("initialized")) <= Cardinality(InitializeSucceeded)
  /\ \A i \in 1 .. Len(calls) :
       (/\ calls[i].op = "initialize" /\ calls[i].req # 0
        /\ promise[calls[i].req] \in {"rejected", "timeout"})
         => /\ calls[i].out # "returned"
            /\ calls[i].pc = "done" => calls[i].out = "threw"

\* C27's case: an initialize call failed after its request timed out or was answered
\* with an error, and no notification was written
C27_Witness ==
  /\ \E i \in 1 .. Len(calls) :
       /\ calls[i].op = "initialize" /\ calls[i].req # 0
       /\ promise[calls[i].req] \in {"rejected", "timeout"}
       /\ calls[i].out = "threw"
  /\ NotificationsOf("initialized") = {}
  /\ NotificationsOf("workspace/didChangeConfiguration") = {}

\* C32: while the client has no subprocess (never started, or stopped), send throws
\* and leaves the client as it was; a call that goes straight to send
\* (workspaceSymbols, initialize) throws, and no step consumes a request id, writes
\* a frame, adds a pending entry or arms a timer
C32_SendWithoutSubprocessChangesNothing ==
  [][proc = NoProc /\ proc' = NoProc =>
       /\ \A method \in OperationMethods \cup {"initialize", "shutdown"} :
            send(World, method) = [ok |-> FALSE, id |-> 0, w |-> World]
       /\ requestId' = requestId /\ io' = io /\ Len(promise') = Len(promise)
       /\ pending' \subseteq pending /\ timers' \subseteq timers
       /\ (/\ Len(calls') = Len(calls) + 1
           /\ calls'[Len(calls')].op \in {"workspaceSymbols", "initialize"})
            => (calls'[Len(calls')].out = "threw" /\ calls'[Len(calls')].req = 0)]_vars

\* C32's case: workspaceSymbols was called on a client that had been started and
\* stopped, and threw
C32_Witness ==
  /\ proc = NoProc
  /\ \E i, j \in 1 .. Len(calls) :
       /\ j < i
       /\ calls[j].op = "stop" /\ calls[j].out = "returned" /\ calls[j].req # 0
       /\ calls[i].op = "workspaceSymbols" /\ calls[i].out = "threw" /\ calls[i].req = 0

\* the kills of a subprocess
Kills == {i \in 1 .. Len(io) : io[i].type = "kill"}

\* C33: a file is in the opened-file set only when its textDocument/didOpen was
\* written, and written to the subprocess the client owns now (after every kill);
\* and a request of an operation on the file is written only after a didOpen
C33_OpenedFilesWereAnnounced ==
  /\ openedFiles # {} => DidOpens # {}
  /\ (openedFiles # {} /\ proc # NoProc) =>
       \A k \in Kills : \E i \in DidOpens : k < i
  /\ \A i \in 1 .. Len(io) :
       io[i].method \in PositionMethods => \E j \in DidOpens : j < i

\* C15: the lifecycle of a client only moves forward: a client that has been stopped
\* never owns a subprocess again, and a started client is never started a second time
C15_LifecycleOnlyForward ==
  [][/\ (proc = NoProc /\ spawned > 0) => proc' = NoProc
     /\ proc # NoProc => spawned' = spawned]_vars

\* C6: once withLspClient has returned or thrown, no subprocess it spawned is running
C6_StoppedOnEveryExit ==
  (driver = "session" /\ session.pc = "done") => alive = {}

\* every operation request in the io log comes after the initialize request and the
\* initialized notification
OperationsAfterInitialized ==
  \A i \in 1 .. Len(io) :
    (io[i].type = "request" /\ io[i].method \in OperationMethods)
      => /\ WrittenBefore(i, "request", "initialize")
         /\ WrittenBefore(i, "notification", "initialized")

C8_NothingPendingAfterStop ==
  (proc = NoProc /\ \E i \in 1 .. Len(calls) : calls[i].op = "stop" /\ calls[i].out = "returned")
    => (pending = {} /\ \A k \in Issued : promise[k] # "waiting")

\* a stop call made on a client with a subprocess awaits its shutdown request
StopCalled == \E i \in 1 .. Len(calls) : calls[i].op = "stop" /\ calls[i].out = "running"

\* C9: once stop is called on a started client, the subprocess is killed and the
\* handle released
C9_StopKills == StopCalled ~> (proc = NoProc)

\* C22: whenever stop kills the subprocess, the exit notification was written just
\* before the kill and the shutdown request before that, however the shutdown
\* request ended
C22_ShutdownExitKill ==
  \A k \in 1 .. Len(io) :
    io[k].type = "kill" =>
      /\ k > 1
      /\ io[k - 1].type = "notification" /\ io[k - 1].method = "exit"
      /\ \E j \in 1 .. k - 2 : io[j].type = "request" /\ io[j].method = "shutdown"

\* C10: a stop on a client without subprocess (stopped before, or never started)
\* returns without error and changes nothing: nothing is written, nothing is killed,
\* no id is allocated
C10_StopAgainIsNoOp ==
  [][(/\ proc = NoProc
      /\ Len(calls') = Len(calls) + 1
      /\ calls'[Len(calls')].op = "stop")
       => /\ calls'[Len(calls')].out = "returned"
          /\ UNCHANGED <<proc, io, alive, spawned, pending, requestId, promise, timers,
                         openedFiles>>]_vars

\* C10's case: a client was started and stopped, and a second stop found it stopped
C10_Witness ==
  \E i, j \in 1 .. Len(calls) :
    /\ i < j
    /\ calls[i].op = "stop" /\ calls[i].req # 0 /\ calls[i].out = "returned"
    /\ calls[j].op = "stop" /\ calls[j].req = 0 /\ calls[j].out = "returned"

(***************************************************************************)
(* The session auto-export hook, createSessionAutoExport                   *)
(* (src/src/hooks/session-auto-export/constants.ts:27-182).  Time is the   *)
(* value of Date.now(), in ticks; a timer fires at its deadline or later.  *)
(* An await is a point where other handlers, timers and settlements run.   *)
(***************************************************************************)
\* the sessions of the events
Sessions == {"s1", "s2"}

\* constants.ts:7: mergedConfig.debounceMs, in ticks
DEBOUNCE_MS == 2

\* constants.ts:9: mergedConfig.maxTrackedSessions
MAX_TRACKED_SESSIONS == 100

\* a call of exportSession: the session, what called it ("timer" or "deleted"),
\* where it is ("reading": before the fetch, "fetching": awaiting the fetch, "done"),
\* and how it ended ("skipped" by the debounce check, "noinfo", "exported", "failed")
Export(sessionId, cause, pc, out) ==
  [sessionId |-> sessionId, cause |-> cause, pc |-> pc, out |-> out]

\* a session.idle handler: the session, where it is ("todos": awaiting
\* readSessionTodos, "done"), the statuses of the todos read, and whether it called
\* scheduleExport
Idle(sessionId, pc, todos, scheduled) ==
  [sessionId |-> sessionId, pc |-> pc, todos |-> todos, scheduled |-> scheduled]

\* the todo lists readSessionTodos returns, each todo by its status
TodoLists ==
  {<<>>, <<"completed">>, <<"pending">>,
   <<"completed", "cancelled">>, <<"completed", "in_progress">>}

\* constants.ts:156-158: todos.some(t => t.status === "pending" || t.status === "in_progress")
hasIncompleteTodos(todos) ==
  \E k \in 1 .. Len(todos) : todos[k] = "pending" \/ todos[k] = "in_progress"

\* constants.ts:39-40 and the environment: the clock, exportedSessions (the entries
\* of the Map in insertion order), pendingExports (session -> timer id, 0: no entry),
\* the timers armed, the handlers of session.idle and the calls of exportSession
NewExporter ==
  [now |-> 1, exportedSessions |-> <<>>, pendingExports |-> [s \in Sessions |-> 0],
   armed |-> {}, nextTimer |-> 1, events |-> 0, idles |-> <<>>, exports |-> <<>>]

\* constants.ts:72: exportedSessions.get(sessionId), 0 for undefined
LastExport(e, sessionId) ==
  LET idx == {i \in 1 .. Len(e.exportedSessions) : e.exportedSessions[i].id = sessionId}
  IN  IF idx = {} THEN 0 ELSE e.exportedSessions[CHOOSE i \in idx : TRUE].time

\* constants.ts:116: exportedSessions.set(sessionId, Date.now()): a key the Map holds
\* keeps its place
SetLastExport(e, sessionId) ==
  IF LastExport(e, sessionId) = 0
  THEN [e EXCEPT !.exportedSessions = Append(@, [id |-> sessionId, time |-> e.now])]
  ELSE [e EXCEPT !.exportedSessions =
          [i \in 1 .. Len(@) |-> IF @[i].id = sessionId
                                 THEN [id |-> sessionId, time |-> e.now] ELSE @[i]]]

\* constants.ts:42-50: the oldest entries beyond maxTrackedSessions are removed
cleanupTrackedSessions(e) ==
  IF Len(e.exportedSessions) > MAX_TRACKED_SESSIONS
  THEN [e EXCEPT !.exportedSessions =
          SubSeq(@, Len(@) - MAX_TRACKED_SESSIONS + 1, Len(@))]
  ELSE e

\* an exportSession without the debounce check of lines 72-75
exportSessionUnchecked(e, sessionId, cause) ==
  [e EXCEPT !.exports = Append(@, Export(sessionId, cause, "reading", "running"))]

\* constants.ts:71-77: exportSession up to its first await: the debounce check
exportSession(e, sessionId, cause) ==
  IF LastExport(e, sessionId) # 0 /\ e.now - LastExport(e, sessionId) < DEBOUNCE_MS
  THEN [e EXCEPT !.exports = Append(@, Export(sessionId, cause, "done", "skipped"))]
  ELSE [e EXCEPT !.exports = Append(@, Export(sessionId, cause, "reading", "running"))]

\* constants.ts:77-115: the reads of call i are done: without session info it
\* returns, otherwise the fetch is sent
sendExport(e, i, found) ==
  IF found THEN [e EXCEPT !.exports[i].pc = "fetching"]
  ELSE [e EXCEPT !.exports[i].pc = "done", !.exports[i].out = "noinfo"]

\* a settlement that records the export time when the fetch failed, too
settleExportAlways(e, i, ok) ==
  cleanupTrackedSessions(
    SetLastExport([e EXCEPT !.exports[i].pc = "done",
                            !.exports[i].out = IF ok THEN "exported" ELSE "failed"],
                  e.exports[i].sessionId))

\* constants.ts:107-119: the fetch of call i settles: fulfilled, the time is recorded;
\* rejected, the catch swallows the error
settleExport(e, i, ok) ==
  IF ok
  THEN cleanupTrackedSessions(
         SetLastExport([e EXCEPT !.exports[i].pc = "done", !.exports[i].out = "exported"],
                       e.exports[i].sessionId))
  ELSE [e EXCEPT !.exports[i].pc = "done", !.exports[i].out = "failed"]

\* a timer: its id, its session, and the time from which it may fire
Timer(id, sessionId, deadline) == [id |-> id, sessionId |-> sessionId, deadline |-> deadline]

\* a scheduleExport that does not clear the timer scheduled before
scheduleExportWithoutClear(e, sessionId) ==
  [e EXCEPT !.armed = @ \cup {Timer(e.nextTimer, sessionId, e.now + DEBOUNCE_MS)},
            !.pendingExports[sessionId] = e.nextTimer,
            !.nextTimer = @ + 1]

\* constants.ts:122-132: scheduleExport: the timer of the session is cleared and a
\* new one is set
scheduleExport(e, sessionId) ==
  [e EXCEPT !.armed = {t \in @ : t.id # e.pendingExports[sessionId]}
                        \cup {Timer(e.nextTimer, sessionId, e.now + DEBOUNCE_MS)},
            !.pendingExports[sessionId] = e.nextTimer,
            !.nextTimer = @ + 1]

\* constants.ts:134-140: cancelPendingExport
cancelPendingExport(e, sessionId) ==
  IF e.pendingExports[sessionId] # 0
  THEN [e EXCEPT !.armed = {t \in @ : t.id # e.pendingExports[sessionId]},
                 !.pendingExports[sessionId] = 0]
  ELSE e

\* constants.ts:126-129: the callback of timer t
timerCallback(e, t) ==
  [exportSession(e, t.sessionId, "timer") EXCEPT !.armed = @ \ {t},
                                                   !.pendingExports[t.sessionId] = 0]

\* an idle handler that schedules the export whatever the todos are
resumeIdleUnchecked(e, i, todos) ==
  [scheduleExport(e, e.idles[i].sessionId)
     EXCEPT !.idles[i] = Idle(e.idles[i].sessionId, "done", todos, TRUE)]

\* constants.ts:155-162: the todos of idle handler i are read
resumeIdle(e, i, todos) ==
  IF hasIncompleteTodos(todos)
  THEN [e EXCEPT !.idles[i] = Idle(e.idles[i].sessionId, "done", todos, FALSE)]
  ELSE [scheduleExport(e, e.idles[i].sessionId)
          EXCEPT !.idles[i] = Idle(e.idles[i].sessionId, "done", todos, TRUE)]

\* the variables the hook does not touch
exportOthers ==
  <<proc, pending, requestId, openedFiles, alive, spawned, io, promise, timers, calls,
    driver, session, toolOut, registryVars, framingVars, walk, pool, trigger, migration>>

ExportInit ==
  /\ proc = NoProc
  /\ buffer = <<>>
  /\ pending = {}
  /\ requestId = 0
  /\ openedFiles = {}
  /\ alive = {}
  /\ spawned = 0
  /\ io = <<>>
  /\ promise = <<>>
  /\ timers = {}
  /\ calls = <<>>
  /\ driver = "direct"
  /\ session = Session("idle", 0, "", "running")
  /\ toolOut = ToolResult("running", "", "")
  /\ registry = NewRegistry(File("absent", <<>>))
  /\ lookup = Lookup(FALSE, "", {}, NoServer)
  /\ listing = NoListing
  /\ exporter = NewExporter
  /\ trigger = NoTrigger
  /\ migration = NoMigration
  /\ frames = <<>>
  /\ stream = <<>>
  /\ dispatched = <<>>
  /\ walk = NoWalk
  /\ pool = NoPool

\* constants.ts:145-155: a session.idle event of an exportable session, up to the
\* await of readSessionTodos
OnSessionIdle(sessionId) ==
  /\ exporter.events < MaxEvents
  /\ exporter' = [exporter EXCEPT !.events = @ + 1,
                                  !.idles = Append(@, Idle(sessionId, "todos", <<>>, FALSE))]
  /\ UNCHANGED exportOthers

\* constants.ts:155-162: readSessionTodos settles
IdleTodosRead ==
  \E i \in 1 .. Len(exporter.idles), todos \in TodoLists :
    /\ exporter.idles[i].pc = "todos"
    /\ exporter' = resumeIdle(exporter, i, todos)
    /\ UNCHANGED exportOthers

\* constants.ts:165-173: a session.deleted event of an exportable session, up to the
\* first await of exportSession
OnSessionDeleted(sessionId) ==
  /\ exporter.events < MaxEvents
  /\ exporter' = exportSession(cancelPendingExport([exporter EXCEPT !.events = @ + 1],
                                                   sessionId),
                               sessionId, "deleted")
  /\ UNCHANGED exportOthers

\* constants.ts:175-180: a session.error event
OnSessionError(sessionId) ==
  /\ exporter.events < MaxEvents
  /\ exporter' = scheduleExport([exporter EXCEPT !.events = @ + 1], sessionId)
  /\ UNCHANGED exportOthers

\* constants.ts:126-129: timer t fires
TimerFires ==
  \E t \in exporter.armed :
    /\ exporter.now >= t.deadline
    /\ exporter' = timerCallback(exporter, t)
    /\ UNCHANGED exportOthers

\* constants.ts:77-115: getSessionInfo, readSessionMessages and readSessionTodos of
\* call i have settled
ExportReads ==
  \E i \in 1 .. Len(exporter.exports), found \in BOOLEAN :
    /\ exporter.exports[i].pc = "reading"
    /\ exporter' = sendExport(exporter, i, found)
    /\ UNCHANGED exportOthers

\* constants.ts:107-119: the fetch of call i settles
FetchSettles ==
  \E i \in 1 .. Len(exporter.exports), ok \in BOOLEAN :
    /\ exporter.exports[i].pc = "fetching"
    /\ exporter' = settleExport(exporter, i, ok)
    /\ UNCHANGED exportOthers

\* the clock advances
Tick ==
  /\ exporter.now < MaxTime
  /\ exporter' = [exporter EXCEPT !.now = @ + 1]
  /\ UNCHANGED exportOthers

ExportNext ==
  \/ \E sessionId \in Sessions : OnSessionIdle(sessionId)
  \/ IdleTodosRead
  \/ \E sessionId \in Sessions : OnSessionDeleted(sessionId)
  \/ \E sessionId \in Sessions : OnSessionError(sessionId)
  \/ TimerFires
  \/ ExportReads
  \/ FetchSettles
  \/ Tick

ExportSpec == ExportInit /\ [][ExportNext]_vars

\* the calls of exportSession whose fetch is sent in this step
SentNow ==
  {i \in 1 .. Len(exporter.exports) :
     exporter.exports[i].pc = "reading" /\ exporter'.exports[i].pc = "fetching"}

\* C34: no export of a session is sent within debounceMs of a successful export of
\* that session: whenever the fetch of a call of exportSession is sent, the session
\* has no recorded export, or the recorded one is at least debounceMs old.
C34_NoExportWithinDebounce ==
  [][\A i \in SentNow :
       \/ LastExport(exporter, exporter.exports[i].sessionId) = 0
       \/ exporter.now - LastExport(exporter, exporter.exports[i].sessionId) >= DEBOUNCE_MS]_vars

\* the timers armed for a session
TimersOf(e, sessionId) == {t \in e.armed : t.sessionId = sessionId}

\* a session.deleted event of the session has been handled
Deleted(e, sessionId) ==
  \E i \in 1 .. Len(e.exports) :
    e.exports[i].sessionId = sessionId /\ e.exports[i].cause = "deleted"

\* C35: once a session.deleted event of a session is handled, exportSession has been
\* called for it and no timer of the session is left; and from then on no timer is
\* armed for the session by a handler that was already running (only a later event
\* could arm one).
C35_DeletedLeavesNoTimer ==
  [][\A sessionId \in Sessions :
       /\ (~Deleted(exporter, sessionId) /\ Deleted(exporter', sessionId))
            => /\ TimersOf(exporter', sessionId) = {}
               /\ exporter'.pendingExports[sessionId] = 0
       /\ (Deleted(exporter, sessionId) /\ exporter'.events = exporter.events)
            => TimersOf(exporter', sessionId) \subseteq TimersOf(exporter, sessionId)]_vars

\* the calls of exportSession a timer makes in this step
TimerExportsNow ==
  {i \in Len(exporter.exports) + 1 .. Len(exporter'.exports) :
     exporter'.exports[i].cause = "timer"}

ResumedNow ==
  {i \in 1 .. Len(exporter.idles) :
     exporter.idles[i].pc = "todos" /\ exporter'.idles[i].pc = "done"}

\* C37: a session.idle handler that read a todo in status pending or in_progress
\* arms no timer, leaves pendingExports alone and calls no exportSession; one that
\* read only completed or cancelled todos, or none, arms the timer of its session.
C37_IdleWithOpenTodosDoesNotExport ==
  [][\A i \in ResumedNow :
       LET todos == exporter'.idles[i].todos
           open == \E k \in 1 .. Len(todos) : todos[k] \in {"pending", "in_progress"}
       IN  /\ open => /\ exporter'.armed = exporter.armed
                      /\ exporter'.pendingExports = exporter.pendingExports
                      /\ exporter'.exports = exporter.exports
                      /\ ~exporter'.idles[i].scheduled
           /\ ~open => /\ exporter'.idles[i].scheduled
                       /\ \E t \in exporter'.armed \ exporter.armed :
                            t.sessionId = exporter.idles[i].sessionId
                       /\ exporter'.exports = exporter.exports]_vars

\* one idle handler read a todo in progress and scheduled nothing, another read
\* completed and cancelled todos and armed the only timer there is
C37_Witness ==
  /\ Len(exporter.idles) = 2
  /\ exporter.idles[1] = Idle("s1", "done", <<"completed", "in_progress">>, FALSE)
  /\ exporter.idles[2] = Idle("s1", "done", <<"completed", "cancelled">>, TRUE)
  /\ exporter.armed = {Timer(1, "s1", exporter.now + DEBOUNCE_MS)}

\* the calls of exportSession whose fetch is rejected in this step
FailedNow ==
  {i \in 1 .. Len(exporter.exports) :
     exporter.exports[i].pc = "fetching" /\ exporter'.exports[i].out = "failed"}

\* C38: when the fetch of a call of exportSession is rejected, the call ends there
\* (the catch of line 118 swallows the error), exportedSessions, the timers and the
\* other calls are left as they were, and a call of exportSession for the session
\* made next is skipped only if one made before the failure would have been.
C38_FailedExportIsNotRecorded ==
  [][\A i \in FailedNow :
       LET sessionId == exporter.exports[i].sessionId
           retry == exportSession(exporter', sessionId, "deleted")
           instead == exportSession(exporter, sessionId, "deleted")
       IN  /\ exporter'.exports[i] = Export(sessionId, exporter.exports[i].cause, "done", "failed")
           /\ exporter' = [exporter EXCEPT !.exports[i] = exporter'.exports[i]]
           /\ LastExport(exporter', sessionId) = LastExport(exporter, sessionId)
           /\ retry.exports[Len(retry.exports)] = instead.exports[Len(instead.exports)]
           /\ LastExport(exporter, sessionId) = 0
                => retry.exports[Len(retry.exports)].pc = "reading"]_vars

\* the export of a deleted session failed, nothing was recorded, and the export a
\* second event of the session asked for in the same tick was sent and succeeded
C38_Witness ==
  /\ Len(exporter.exports) = 2
  /\ exporter.exports[1] = Export("s1", "deleted", "done", "failed")
  /\ exporter.exports[2] = Export("s1", "deleted", "done", "exported")
  /\ exporter.exportedSessions = <<[id |-> "s1", time |-> 1]>>
  /\ exporter.now = 1

(***************************************************************************)
(* The testing-agent trigger hook, createTestingAgentTriggerHook           *)
(* (src/src/hooks/testing-agent-trigger/index.ts:74-153).                  *)
(***************************************************************************)
\* index.ts:119: config.debounceMs, in ticks
TRIGGER_DEBOUNCE_MS == 2

\* index.ts:129: editTools
editTools == {"edit", "write", "multiedit", "mcp_edit", "mcp_write"}

\* input.tool of the calls, and String.prototype.toLowerCase on them
ToolNames == {"edit", "Write", "read"}
toLowerCase(name) == IF name = "Write" THEN "write" ELSE name

\* the files of the web layer, which config.patterns match, and one they do not match
WebFiles == {"web/a.tsx", "web/b.tsx"}
EditedPaths == WebFiles \cup {"README.md"}

\* index.ts:68-72: matchesPattern(filePath, config.patterns)
matchesPattern(filePath) == filePath \in WebFiles

\* output.args of a call: the members file_path, filePath and path, "" for undefined
Args(file_path, filePath, path) == [file_path |-> file_path, filePath |-> filePath, path |-> path]
ArgsOf ==
  {Args("", "", "")}
    \cup {Args(f, "", "") : f \in EditedPaths}
    \cup {Args("", f, "README.md") : f \in WebFiles}
    \cup {Args("", "", f) : f \in WebFiles}

\* index.ts:133-136: args?.file_path ?? args?.filePath ?? args?.path
FilePathOf(args) ==
  IF args.file_path # "" THEN args.file_path
  ELSE IF args.filePath # "" THEN args.filePath
  ELSE args.path

\* index.ts:78-88 and the environment: config.enabled, whether a trigger sends a
\* notification (config.notifyOnTrigger on a supported platform), the clock, the
\* state object (pendingFiles in insertion order, lastTriggerTime, debounceTimer as
\* a timer id, 0 for null), the timers armed, the file lists of the triggers so far
\* and the notifications awaited
NewTrigger(enabled, notifyOnTrigger) ==
  [enabled |-> enabled, notify |-> notifyOnTrigger, now |-> 1,
   pendingFiles |-> <<>>, lastTriggerTime |-> 0, debounceTimer |-> 0,
   armed |-> {}, nextTimer |-> 1, edits |-> 0, triggers |-> <<>>, notifying |-> 0]

\* a debounce timer: its id and the time from which it may fire
DebounceTimer(id, deadline) == [id |-> id, deadline |-> deadline]

\* Set.prototype.add on pendingFiles
AddFile(files, filePath) ==
  IF \E k \in 1 .. Len(files) : files[k] = filePath THEN files ELSE Append(files, filePath)

\* index.ts:90-110: triggerTestingAgent up to its await
triggerTestingAgent(g) ==
  IF Len(g.pendingFiles) = 0 THEN g
  ELSE [g EXCEPT !.triggers = Append(@, g.pendingFiles),
                 !.pendingFiles = <<>>,
                 !.lastTriggerTime = g.now,
                 !.notifying = IF g.notify THEN @ + 1 ELSE @]

\* a scheduleTestingAgent that does not clear the timer set before
scheduleTestingAgentWithoutClear(g) ==
  [g EXCEPT !.armed = @ \cup {DebounceTimer(g.nextTimer, g.now + TRIGGER_DEBOUNCE_MS)},
            !.debounceTimer = g.nextTimer,
            !.nextTimer = @ + 1]

\* index.ts:112-120: scheduleTestingAgent
scheduleTestingAgent(g) ==
  [g EXCEPT !.armed = {t \in @ : t.id # g.debounceTimer}
                        \cup {DebounceTimer(g.nextTimer, g.now + TRIGGER_DEBOUNCE_MS)},
            !.debounceTimer = g.nextTimer,
            !.nextTimer = @ + 1]

\* index.ts:116-119: the callback of timer t
debounceCallback(g, t) ==
  triggerTestingAgent([g EXCEPT !.armed = @ \ {t}, !.debounceTimer = 0])

\* index.ts:123-151: the "tool.execute.before" handler
toolExecuteBefore(g, tool, args) ==
  IF ~g.enabled THEN g
  ELSE IF toLowerCase(tool) \notin editTools THEN g
  ELSE IF FilePathOf(args) = "" THEN g
  ELSE IF ~matchesPattern(FilePathOf(args)) THEN g
  ELSE scheduleTestingAgent([g EXCEPT !.pendingFiles = AddFile(@, FilePathOf(args))])

\* the variables the hook does not touch
triggerOthers ==
  <<proc, pending, requestId, openedFiles, alive, spawned, io, promise, timers, calls,
    driver, session, toolOut, registryVars, framingVars, walk, pool, exporter, migration>>

TriggerInit ==
  /\ proc = NoProc
  /\ buffer = <<>>
  /\ pending = {}
  /\ requestId = 0
  /\ openedFiles = {}
  /\ alive = {}
  /\ spawned = 0
  /\ io = <<>>
  /\ promise = <<>>
  /\ timers = {}
  /\ calls = <<>>
  /\ driver = "direct"
  /\ session = Session("idle", 0, "", "running")
  /\ toolOut = ToolResult("running", "", "")
  /\ registry = NewRegistry(File("absent", <<>>))
  /\ lookup = Lookup(FALSE, "", {}, NoServer)
  /\ listing = NoListing
  /\ exporter = NoExporter
  /\ \E enabled \in BOOLEAN, notifyOnTrigger \in BOOLEAN :
       trigger = NewTrigger(enabled, notifyOnTrigger)
  /\ migration = NoMigration
  /\ frames = <<>>
  /\ stream = <<>>
  /\ dispatched = <<>>
  /\ walk = NoWalk
  /\ pool = NoPool

\* index.ts:123-151: a tool is about to run
ToolExecuteBefore ==
  \E tool \in ToolNames, args \in ArgsOf :
    /\ trigger.edits < MaxEdits
    /\ trigger' = [toolExecuteBefore(trigger, tool, args) EXCEPT !.edits = @ + 1]
    /\ UNCHANGED triggerOthers

\* index.ts:116-119: a debounce timer fires
DebounceFires ==
  \E t \in trigger.armed :
    /\ trigger.now >= t.deadline
    /\ trigger' = debounceCallback(trigger, t)
    /\ UNCHANGED triggerOthers

\* index.ts:102-109: sendNotification settles
NotificationSent ==
  /\ trigger.notifying > 0
  /\ trigger' = [trigger EXCEPT !.notifying = @ - 1]
  /\ UNCHANGED triggerOthers

\* the clock advances
TriggerTick ==
  /\ trigger.now < MaxTriggerTime
  /\ trigger' = [trigger EXCEPT !.now = @ + 1]
  /\ UNCHANGED triggerOthers

TriggerNext ==
  \/ ToolExecuteBefore
  \/ DebounceFires
  \/ NotificationSent
  \/ TriggerTick

TriggerSpec == TriggerInit /\ [][TriggerNext]_vars

\* the files of a list
FilesIn(files) == {files[k] : k \in 1 .. Len(files)}

\* C39: after every step at most one debounce timer is armed and state.debounceTimer
\* is that timer; a timer armed in a step is due debounceMs after that step, and the
\* edit that armed it has its file among the pending ones; a trigger happens only when
\* a due timer fires, its file list is the pending files in the order recorded, and it
\* leaves no pending file; and no other step removes a pending file.
C39_DebouncedTrigger ==
  [][/\ Cardinality(trigger'.armed) <= 1
     /\ trigger'.armed = {t \in trigger'.armed : t.id = trigger'.debounceTimer}
     /\ (trigger'.debounceTimer # 0) = (trigger'.armed # {})
     /\ \A t \in trigger'.armed \ trigger.armed :
          /\ t.deadline = trigger.now + TRIGGER_DEBOUNCE_MS
          /\ trigger'.edits = trigger.edits + 1
          /\ FilesIn(trigger.pendingFiles) \subseteq FilesIn(trigger'.pendingFiles)
          /\ trigger'.pendingFiles # <<>>
     /\ IF Len(trigger'.triggers) > Len(trigger.triggers)
        THEN /\ \E t \in trigger.armed : trigger.now >= t.deadline
             /\ trigger'.armed = {}
             /\ trigger'.triggers = Append(trigger.triggers, trigger.pendingFiles)
             /\ trigger.pendingFiles # <<>>
             /\ trigger'.pendingFiles = <<>>
             /\ trigger'.lastTriggerTime = trigger.now
        ELSE /\ FilesIn(trigger.pendingFiles) \subseteq FilesIn(trigger'.pendingFiles)
             /\ (trigger'.pendingFiles # <<>>) => (trigger'.armed # {})]_vars

\* two matching edits a tick apart, then one trigger, debounceMs after the second edit,
\* with both files, and nothing pending
C39_Witness ==
  /\ trigger.triggers = <<(<<"web/a.tsx", "web/b.tsx">>)>>
  /\ trigger.nextTimer = 3
  /\ trigger.lastTriggerTime = 2 + TRIGGER_DEBOUNCE_MS
  /\ trigger.pendingFiles = <<>>
  /\ trigger.armed = {}

(***************************************************************************)
(* Migration of an agent configuration between the legacy tools format and *)
(* the permission format (src/unnamed/part_001:96-144).  An object is a    *)
(* function from its keys to their values; a member of the configuration   *)
(* is present or not.                                                      *)
(***************************************************************************)
\* the tools named in the maps
ToolKeys == {"write", "edit"}

\* part_001:5: PermissionValue
PermissionValues == {"ask", "allow", "deny"}

\* a member of the configuration: whether the object has it, and its value
Member(present, value) == [present |-> present, value |-> value]
NoMember == Member(FALSE, <<>>)

\* the objects over the tool names with values of a set
MapsTo(values) == UNION {[keys -> values] : keys \in SUBSET ToolKeys}

\* the configurations migrated: a model name, and the tools and permission members
AgentConfig(model, tools, permission) ==
  [model |-> model, tools |-> tools, permission |-> permission]
AgentConfigs ==
  {AgentConfig(model, tools, permission) :
     model \in {NoMember, Member(TRUE, "test")},
     tools \in {NoMember} \cup {Member(TRUE, m) : m \in MapsTo(BOOLEAN)},
     permission \in {NoMember} \cup {Member(TRUE, m) : m \in MapsTo(PermissionValues)}}

\* an object spread: { ...first, ...second }
Spread(first, second) ==
  [k \in DOMAIN first \cup DOMAIN second |-> IF k \in DOMAIN second THEN second[k] ELSE first[k]]

\* part_001:96-105: migrateToolsToPermission
migrateToolsToPermission(tools) ==
  [k \in DOMAIN tools |-> IF tools[k] THEN "allow" ELSE "deny"]

\* part_001:107-115: migratePermissionToTools
migratePermissionToTools(permission) ==
  [k \in {key \in DOMAIN permission : permission[key] # "ask"} |-> permission[k] = "allow"]

\* the heap after a call: the object passed in and the object returned
Migrated(config, result) == [config |-> config, result |-> result]

\* a migration that works on the object passed in instead of a copy
migrateAgentConfigInPlace(config, newSystem) ==
  LET result ==
        IF newSystem
        THEN IF config.tools.present
             THEN AgentConfig(config.model, NoMember,
                              Member(TRUE, Spread(migrateToolsToPermission(config.tools.value),
                                                  IF config.permission.present
                                                  THEN config.permission.value ELSE <<>>)))
             ELSE config
        ELSE IF config.permission.present
             THEN AgentConfig(config.model,
                              Member(TRUE, Spread(migratePermissionToTools(config.permission.value),
                                                  IF config.tools.present
                                                  THEN config.tools.value ELSE <<>>)),
                              NoMember)
             ELSE config
  IN  Migrated(result, result)

\* part_001:117-144: migrateAgentConfig; newSystem is supportsNewPermissionSystem()
migrateAgentConfig(config, newSystem) ==
  LET result ==
        IF newSystem
        THEN IF config.tools.present
             THEN AgentConfig(config.model, NoMember,
                              Member(TRUE, Spread(migrateToolsToPermission(config.tools.value),
                                                  IF config.permission.present
                                                  THEN config.permission.value ELSE <<>>)))
             ELSE config
        ELSE IF config.permission.present
             THEN AgentConfig(config.model,
                              Member(TRUE, Spread(migratePermissionToTools(config.permission.value),
                                                  IF config.tools.present
                                                  THEN config.tools.value ELSE <<>>)),
                              NoMember)
             ELSE config
  IN  Migrated(config, result)

\* a call of migrateAgentConfig: the version, the object passed in as it was and as
\* it is, and the object returned
Migration(newSystem, input, config, called, result) ==
  [newSystem |-> newSystem, input |-> input, config |-> config,
   called |-> called, result |-> result]

\* the variables the migration does not touch
migrationOthers ==
  <<proc, pending, requestId, openedFiles, alive, spawned, io, promise, timers, calls,
    driver, session, toolOut, registryVars, framingVars, walk, pool, exporter, trigger>>

MigrationInit ==
  /\ proc = NoProc
  /\ buffer = <<>>
  /\ pending = {}
  /\ requestId = 0
  /\ openedFiles = {}
  /\ alive = {}
  /\ spawned = 0
  /\ io = <<>>
  /\ promise = <<>>
  /\ timers = {}
  /\ calls = <<>>
  /\ driver = "direct"
  /\ session = Session("idle", 0, "", "running")
  /\ toolOut = ToolResult("running", "", "")
  /\ registry = NewRegistry(File("absent", <<>>))
  /\ lookup = Lookup(FALSE, "", {}, NoServer)
  /\ listing = NoListing
  /\ exporter = NoExporter
  /\ trigger = NoTrigger
  /\ \E newSystem \in BOOLEAN, config \in AgentConfigs :
       migration = Migration(newSystem, config, config, FALSE, config)
  /\ frames = <<>>
  /\ stream = <<>>
  /\ dispatched = <<>>
  /\ walk = NoWalk
  /\ pool = NoPool

\* part_001:117-144: the configuration is migrated
Migrate ==
  /\ ~migration.called
  /\ \E heap \in {migrateAgentConfig(migration.config, migration.newSystem)} :
       migration' = Migration(migration.newSystem, migration.input, heap.config, TRUE,
                              heap.result)
  /\ UNCHANGED migrationOthers

MigrationNext == Migrate

MigrationSpec == MigrationInit /\ [][MigrationNext]_vars

\* the object passed in is as it was, and the model name is returned as it was
InputAndOtherFieldsKept ==
  /\ migration.config = migration.input
  /\ migration.result.model = migration.input.model

\* C40 as stated: after the call, with the new permission system a tools map is gone
\* and each of its entries is deny (false) or allow (true) in permission; without it a
\* permission map is gone and each allow or deny entry is true or false in tools; the
\* other fields are as they were and the object passed in is not modified.
C40_EveryEntryMigrated ==
  migration.called =>
    /\ InputAndOtherFieldsKept
    /\ (migration.newSystem /\ migration.input.tools.present)
         => /\ ~migration.result.tools.present
            /\ migration.result.permission.present
            /\ \A k \in DOMAIN migration.input.tools.value :
                 /\ k \in DOMAIN migration.result.permission.value
                 /\ migration.result.permission.value[k]
                      = (IF migration.input.tools.value[k] THEN "allow" ELSE "deny")
    /\ (~migration.newSystem /\ migration.input.permission.present)
         => /\ ~migration.result.permission.present
            /\ migration.result.tools.present
            /\ \A k \in DOMAIN migration.input.permission.value :
                 migration.input.permission.value[k] # "ask"
                   => /\ k \in DOMAIN migration.result.tools.value
                      /\ migration.result.tools.value[k]
                           = (migration.input.permission.value[k] = "allow")

\* the entries a migration leaves in the map of the running version: those the map
\* had, and the converted entries of the other map for the keys it did not have
MergedInto(existing, converted) ==
  [k \in DOMAIN existing \cup DOMAIN converted |->
     IF k \in DOMAIN existing THEN existing[k] ELSE converted[k]]

\* C40, amended: as stated, but an entry the map of the running version already has
\* is kept as it is, whatever the other map says for that key; an "ask" entry is
\* dropped on older versions; and a configuration without the map of the other format
\* is returned as it is.
C40_EntriesMigratedUnlessPresent ==
  migration.called =>
    LET input == migration.input
        result == migration.result
        permission == IF input.permission.present THEN input.permission.value ELSE <<>>
        tools == IF input.tools.present THEN input.tools.value ELSE <<>>
    IN  /\ InputAndOtherFieldsKept
        /\ (migration.newSystem /\ input.tools.present)
             => /\ ~result.tools.present
                /\ result.permission
                     = Member(TRUE, MergedInto(permission,
                                  [k \in DOMAIN tools |-> IF tools[k] THEN "allow" ELSE "deny"]))
        /\ (migration.newSystem /\ ~input.tools.present) => result = input
        /\ (~migration.newSystem /\ input.permission.present)
             => /\ ~result.permission.present
                /\ result.tools
                     = Member(TRUE, MergedInto(tools,
                                  [k \in {key \in DOMAIN permission : permission[key] \in {"allow", "deny"}}
                                     |-> permission[k] = "allow"]))
        /\ (~migration.newSystem /\ ~input.permission.present) => result = input

\* the first test of part_001:309-324 has run: tools { write: false, edit: false } and
\* a model, migrated for the new permission system
C40_Witness ==
  /\ migration.called
  /\ migration.newSystem
  /\ migration.input = AgentConfig(Member(TRUE, "test"),
                                   Member(TRUE, [k \in ToolKeys |-> FALSE]), NoMember)
  /\ migration.result = AgentConfig(Member(TRUE, "test"), NoMember,
                                    Member(TRUE, [k \in ToolKeys |-> "deny"]))

====
